---- MODULE Spec2Model ----
(***************************************************************************)
(* A model of pysarts/corrections.py: the global pressure search           *)
(* (optim_era_delay with its worker pool), the patch search                *)
(* (patches_era_delay, _optimise_zenith_delay) and the zenith delay        *)
(* integrator (calculate_era_zenith_delay).                                *)
(*                                                                         *)
(* Numbers.  The code works on float64 arrays.  The model keeps the same   *)
(* data flow on small integers: a field is a function from pixels <<y,x>>  *)
(* to integers, a profile is a function from pixels to columns (one value  *)
(* per pressure level).  The standard deviation of a field is represented  *)
(* by n*Sum(x^2) - Sum(x)^2 (n^2 times the variance), which orders fields  *)
(* of one shape exactly as numpy's std() does and is zero exactly when     *)
(* std() is zero.  Slant delays are kept in units of 1/SlantDen.           *)
(***************************************************************************)
EXTENDS Integers, Sequences, FiniteSets, TLC

(***************************************************************************)
(* Bounds of the model                                                     *)
(***************************************************************************)
NLevels == 3      \* number of pressure levels of a profile
MaxProcs == 2     \* largest worker pool (os.cpu_count()) explored

(***************************************************************************)
(* Generic helpers                                                         *)
(***************************************************************************)
Range(s) == {s[i] : i \in DOMAIN s}

Grid(ny, nx) == (1..ny) \X (1..nx)

RECURSIVE SumSet(_, _)
SumSet(f, S) ==
    IF S = {} THEN 0
    ELSE LET p == CHOOSE q \in S : TRUE
         IN f[p] + SumSet(f, S \ {p})

\* numpy ndarray.std() of a field, as n*Sum(x^2) - Sum(x)^2
Std(f) ==
    LET P  == DOMAIN f
        sq == [p \in P |-> f[p] * f[p]]
    IN Cardinality(P) * SumSet(sq, P) - SumSet(f, P) * SumSet(f, P)

NaN == -1         \* np.nan: in a pressure-level map (levels are positive), as
                  \* a pixel of an interferogram (the defined pixels explored
                  \* are not negative) and as a standard deviation
Inf == -2         \* np.inf as best-so-far standard deviation

(***************************************************************************)
(* State of the three calls                                                *)
(***************************************************************************)
VARIABLES
    o_pc,       \* position of optim_era_delay: start, args, waiting, returned, raised_level, raised_worker
    o_in,       \* the arguments of the call and the size of the pool
    o_args,     \* helper_args
    o_pool,     \* the worker pool: none, open, closed
    o_queue,    \* task batches not yet taken by a worker
    o_worker,   \* per worker: the batch it holds and its unpickled models
    o_outq,     \* the pool's result queue: batches ended, not yet reported
    o_value,    \* the result list of the map (MapResult._value)
    o_success,  \* MapResult._success
    o_left,     \* MapResult._number_left
    o_ret,      \* the list optim_era_delay returned
    o_done,     \* tasks whose _optim_era_delay call returned
    o_failed    \* tasks whose _optim_era_delay call raised

ovars == <<o_pc, o_in, o_args, o_pool, o_queue, o_worker, o_outq, o_value,
           o_success, o_left, o_ret, o_done, o_failed>>

VARIABLES
    z_pc,       \* position: idle, entry, checked, integrating, returned, raised
    z_model,    \* the weather model
    z_dem,      \* the DEM
    z_alloc,    \* the output arrays exist
    z_n,        \* number of cells integrated so far, in ndenumerate order
    z_wet,      \* the cells of wet_delay written so far
    z_dry,      \* the cells of dry_delay written so far
    z_ret,      \* the returned (wet, dry, total)
    z_geo       \* lons, lats and date of the model, lons and lats of the DEM

zvars == <<z_pc, z_model, z_dem, z_alloc, z_n, z_wet, z_dry, z_ret, z_geo>>

VARIABLES
    p_pc,       \* position: idle, start, loop, trial, returned, raised_view, raised_level
    p_in,       \* the arguments of the call
    p_i,        \* number of windows np.ndindex has handed out so far
    p_out,      \* the six preallocated output arrays
    p_written,  \* pixels of the output arrays written through a window view
    p_log,      \* per finished window: its index, its branch and its final std
    p_search,   \* the locals of the running _optimise_zenith_delay call
    p_profiles  \* rel_hum of the caller's mmodel and smodel objects

pvars == <<p_pc, p_in, p_i, p_out, p_written, p_log, p_search, p_profiles>>

VARIABLES
    s_pc,       \* position of plot_sar_delay: idle, start, parsed, checked,
                \* delay_loaded, grid_read, ifg_loaded, plotted, raised
    s_in,       \* the arguments of the call and the files that exist
    s_date,     \* date once it is a date object
    s_err,      \* the exception the call raised
    s_reads     \* the files the call has opened so far, in order

svars == <<s_pc, s_in, s_date, s_err, s_reads>>

VARIABLES
    l_pc,       \* position of liquid_zenith_delay: idle, start, multiplied, returned
    l_in,       \* the arguments: lwc and cloud_thickness
    l_delay,    \* the local delay
    l_ret       \* the returned SAR

lvars == <<l_pc, l_in, l_delay, l_ret>>

VARIABLES
    j_pc,       \* position of _calculate_zenith_delay_jit on one cell: idle,
                \* start, integrate, returned
    j_in,       \* the cell: dem elevation and the temp, ppwv and pressure column
    j_i,        \* the intervals of new_heights trapz has summed
    j_wet,      \* the running sum of trapz over wet_refract
    j_dry,      \* the running sum of trapz over dry_refract
    j_out       \* out_wet[y, x] and out_dry[y, x]

jvars == <<j_pc, j_in, j_i, j_wet, j_dry, j_out>>

(***************************************************************************)
(* The weather model (ERAModel) and the fields                             *)
(***************************************************************************)
\* mmodel.pressure[0, 0, :]: the level list, index 1 first
Levels == [i \in 1..NLevels |-> 1000 - 200 * (i - 1)]

\* a level value that is in no level list (550 against 1000, 800, 600, ...)
AbsentLevel == Levels[NLevels] - 50

MinPlevels == Range(Levels) \cup {AbsentLevel}

BaseHum == 5      \* relative humidity of the lowest level (50 %, in tens)
RainHum == 10     \* relative humidity injected where it rains (100 %)

\* relative humidity of one column before any injection
BaseColumn == [l \in 1..NLevels |-> IF BaseHum - (l - 1) > 0 THEN BaseHum - (l - 1) ELSE 1]

BaseRelHum(P) == [p \in P |-> BaseColumn]

\* the same relative humidity on every level of every column
FlatRelHum(P) == [p \in P |-> [l \in 1..NLevels |-> BaseHum]]

\* an injection on the levels from min_plevel up to the top of the column
add_rainfallMut(rel_hum, rainfall, min_plevel, max_plevel) ==
    [p \in DOMAIN rel_hum |->
        [l \in 1..NLevels |->
            IF rainfall[p] > 0 /\ Levels[l] <= min_plevel
            THEN RainHum
            ELSE rel_hum[p][l]]]

\* ERAModel.add_rainfall(rainfall, min_plevel, max_plevel, ...): where the
\* rainfall is non-zero the humidity of the levels between min_plevel and
\* max_plevel becomes the rainfall humidity; the receiver is changed in place
add_rainfall(rel_hum, rainfall, min_plevel, max_plevel) ==
    [p \in DOMAIN rel_hum |->
        [l \in 1..NLevels |->
            IF rainfall[p] > 0 /\ Levels[l] >= min_plevel /\ Levels[l] <= max_plevel
            THEN RainHum
            ELSE rel_hum[p][l]]]

MaxPlevel == 1000   \* third argument of every add_rainfall call

\* trapz over the column from the surface level upwards (unit level spacing,
\* twice the area so that the result stays an integer)
RECURSIVE trapz(_, _)
trapz(col, from) ==
    IF from >= NLevels THEN 0
    ELSE col[from] + col[from + 1] + trapz(col, from + 1)

\* dry refractivity of a level: k1 * pressure / T at constant temperature
DryRefract == [l \in 1..NLevels |-> Levels[l] \div 100]

\* _calculate_zenith_delay_jit: per cell, integrate the wet and the dry
\* refractivity from the DEM surface (dem[p]: the level the surface is at)
\* to the top of the column
JitWet(dem, ppwv) == [p \in DOMAIN dem |-> trapz(ppwv[p], dem[p])]
JitDry(dem) == [p \in DOMAIN dem |-> trapz(DryRefract, dem[p])]

\* SAR.zenith2slant(look_angle): zenith / cos(look_angle), with
\* 1 / cos(0.367) taken as SlantNum / SlantDen and the result in 1/SlantDen
SlantNum == 15
SlantDen == 14
zenith2slant(z) == [p \in DOMAIN z |-> z[p] * SlantNum]

(***************************************************************************)
(* calculate_era_zenith_delay                                              *)
(***************************************************************************)
\* a weather model: its grid size and its relative humidity
ERAModel(lats, lons, rel_hum) == [lats |-> lats, lons |-> lons, rel_hum |-> rel_hum]

\* a DEM: its grid size and, per pixel, the level the surface is at
GeoGrid(lons, lats, data) == [lats |-> lats, lons |-> lons, data |-> data]

\* the surface of the DEMs explored: odd columns at level 1, even ones at level 2
DemData(P) == [p \in P |-> IF p[2] % 2 = 0 /\ NLevels > 2 THEN 2 ELSE 1]

\* a DEM of zeros: the surface of every pixel is at the lowest level
FlatDem(P) == [p \in P |-> 1]

\* the size test of calculate_era_zenith_delay
GridMismatch(model, dem) == dem.lats # model.lats \/ dem.lons # model.lons

NoField == [p \in {} |-> 0]

\* ERAModel.ppwv: partial pressure of water vapour, here at constant
\* temperature, where it is proportional to the relative humidity
ppwv(model) == model.rel_hum

\* calculate_era_zenith_delay(model, dem): IndexError on a size mismatch,
\* else the wet, dry and total zenith delay
calculate_era_zenith_delay(model, dem) ==
    IF GridMismatch(model, dem)
    THEN [raised |-> TRUE, wet |-> NoField, dry |-> NoField, total |-> NoField]
    ELSE LET wet == JitWet(dem.data, ppwv(model))
             dry == JitDry(dem.data)
         IN [raised |-> FALSE, wet |-> wet, dry |-> dry,
             total |-> [p \in DOMAIN dem.data |-> dry[p] + wet[p]]]

(***************************************************************************)
(* optim_era_delay and its worker pool                                     *)
(***************************************************************************)
NotFound == 0

\* a lookup that falls back to the last level instead of raising
FindLevelMut(pressure, min_plevel) ==
    IF \E i \in DOMAIN pressure : pressure[i] = min_plevel
    THEN CHOOSE i \in DOMAIN pressure : pressure[i] = min_plevel
    ELSE Len(pressure)

\* np.nonzero(pressure == min_plevel)[0][0]: the first index that holds the
\* level; NotFound stands for the IndexError of the empty result
FindLevel(pressure, min_plevel) ==
    IF \E i \in DOMAIN pressure : pressure[i] = min_plevel
    THEN CHOOSE i \in DOMAIN pressure :
            /\ pressure[i] = min_plevel
            /\ \A j \in DOMAIN pressure : pressure[j] = min_plevel => i <= j
    ELSE NotFound

\* the slice without its last level
PlevelsMut(pressure, min_plevel_idx) == SubSeq(pressure, 1, min_plevel_idx - 1)

\* pressure[max_plevel_idx : min_plevel_idx + 1] with max_plevel_idx = 0
Plevels(pressure, min_plevel_idx) == SubSeq(pressure, 1, min_plevel_idx)

\* itertools.product(plevels, plevels) as a list: master level outer
Product(plevels) ==
    LET n == Len(plevels)
    IN [i \in 1..(n * n) |-> <<plevels[((i - 1) \div n) + 1], plevels[((i - 1) % n) + 1]>>]

Result(master_p, slave_p, std) == [master_p |-> master_p, slave_p |-> slave_p, std |-> std]
NoResult == Result(0, 0, -1)

\* the residual of the interferogram for given zenith delays, in 1/SlantDen
Residual(ifg, mwet, mdry, swet, sdry) ==
    LET mw == zenith2slant(mwet)
        md == zenith2slant(mdry)
        sw == zenith2slant(swet)
        sd == zenith2slant(sdry)
    IN [p \in DOMAIN ifg |-> ifg[p] * SlantDen - ((mw[p] + md[p]) - (sw[p] + sd[p]))]

\* corrected_ifg.std(): NaN as soon as one pixel of the interferogram is NaN
ResidualStd(ifg, mwet, mdry, swet, sdry) ==
    IF \E p \in DOMAIN ifg : ifg[p] = NaN
    THEN NaN
    ELSE Std(Residual(ifg, mwet, mdry, swet, sdry))

\* _optim_era_delay: injects into the two models it is handed, in place, and
\* scores the pair; raised when calculate_era_zenith_delay raises
optim_helper(dem, ifg, mmodel, smodel, mwr, swr, master_min_plevel, slave_min_plevel) ==
    LET mm == [mmodel EXCEPT !.rel_hum = add_rainfall(@, mwr, master_min_plevel, MaxPlevel)]
        sm == [smodel EXCEPT !.rel_hum = add_rainfall(@, swr, slave_min_plevel, MaxPlevel)]
        m  == calculate_era_zenith_delay(mm, dem)
        s  == calculate_era_zenith_delay(sm, dem)
    IN IF m.raised \/ s.raised
       THEN [raised |-> TRUE, mmodel |-> mm, smodel |-> sm, result |-> NoResult]
       ELSE [raised |-> FALSE, mmodel |-> mm, smodel |-> sm,
             result |-> Result(master_min_plevel, slave_min_plevel,
                               ResidualStd(ifg, m.wet, m.dry, s.wet, s.dry))]

\* Pool.starmap: the chunk size of multiprocessing's map for n tasks
Chunksize(n, nprocs) ==
    LET q == n \div (4 * nprocs)
        r == n % (4 * nprocs)
    IN IF r # 0 THEN q + 1 ELSE q

\* the task batches: consecutive slices of the argument list
Chunks(n, cs) ==
    LET nc == IF n = 0 THEN 0 ELSE (n + cs - 1) \div cs
    IN [c \in 1..nc |->
          [j \in 1..(IF c * cs <= n THEN cs ELSE n - (c - 1) * cs) |-> (c - 1) * cs + j]]

\* the grid of the global search
OptimGrid == Grid(2, 2)

RainAt(P, S) == [p \in P |-> IF p \in S THEN 1 ELSE 0]
IfgRamp(P, slope) == [p \in P |-> slope * p[2]]
IfgCurve(P) == [p \in P |-> 2 * p[2] * p[2]]

\* an interferogram with undefined (NaN) pixels S
IfgGap(P, S) == [p \in P |-> IF p \in S THEN NaN ELSE 3 * p[2]]

\* the two weather models: the slave date is the more humid one
OptimMModel == ERAModel(2, 2, BaseRelHum(OptimGrid))
OptimSModel == ERAModel(2, 2, [p \in OptimGrid |-> [l \in 1..NLevels |-> BaseColumn[l] + 1]])

\* the arguments explored on a pool of one process: the level asked for,
\* where it rained on either date, the interferogram, the DEM's longitude
\* count (2 matches the models) and the task hit by a failure inside the
\* worker (0: none)
SerialInputs ==
    [min_plevel : MinPlevels,
     nprocs     : {1},
     mwr        : {RainAt(OptimGrid, {}), RainAt(OptimGrid, {<<1, 1>>})},
     swr        : {RainAt(OptimGrid, {}), RainAt(OptimGrid, {<<2, 2>>})},
     ifg        : {IfgRamp(OptimGrid, 0), IfgRamp(OptimGrid, 3)},
     dem_lons   : {2, 3},
     dem_flat   : {FALSE},
     fault      : 0..2,
     mmodel     : {OptimMModel},
     smodel     : {OptimSModel}]

\* the arguments explored on larger pools: rainfall on the slave date or on
\* both over a ramp, with and without a failure inside a worker; pools of more than two
\* processes work on the task lists of the two lowest levels
PoolInputs ==
    {x \in [min_plevel : MinPlevels,
            nprocs     : 2..MaxProcs,
            mwr        : {RainAt(OptimGrid, {}), RainAt(OptimGrid, {<<1, 1>>})},
            swr        : {RainAt(OptimGrid, {<<2, 2>>})},
            ifg        : {IfgRamp(OptimGrid, 3)},
            dem_lons   : {2},
            dem_flat   : {FALSE},
            fault      : {0, 2},
            mmodel     : {OptimMModel},
            smodel     : {OptimSModel}] :
        x.nprocs > 2 => x.min_plevel >= Levels[2]}

OptimInputs == SerialInputs \cup PoolInputs

\* arguments with an interferogram that has one undefined pixel
GapInputs ==
    [min_plevel : {Levels[2]},
     nprocs     : 1..MaxProcs,
     mwr        : {RainAt(OptimGrid, {<<1, 1>>})},
     swr        : {RainAt(OptimGrid, {}), RainAt(OptimGrid, {<<2, 2>>})},
     ifg        : {IfgGap(OptimGrid, {<<2, 1>>})},
     dem_lons   : {2},
     dem_flat   : {FALSE},
     fault      : {0},
     mmodel     : {OptimMModel},
     smodel     : {OptimSModel}]

\* the level asked for in the flat scenario, and its largest pool
ScenarioPlevel == 600
ScenarioProcs == 2

\* one flat profile for both dates
ScenarioModel == ERAModel(2, 2, FlatRelHum(OptimGrid))

\* the flat scenario: a DEM of zeros, the same flat profile on both dates, an
\* all-zero interferogram, rainfall nowhere or on some pixels of either date
ScenarioInputs ==
    [min_plevel : {ScenarioPlevel},
     nprocs     : 1..ScenarioProcs,
     mwr        : {RainAt(OptimGrid, {}), RainAt(OptimGrid, {<<1, 1>>}),
                   RainAt(OptimGrid, {<<1, 1>>, <<1, 2>>, <<2, 1>>})},
     swr        : {RainAt(OptimGrid, {}), RainAt(OptimGrid, {<<1, 1>>}),
                   RainAt(OptimGrid, {<<2, 2>>})},
     ifg        : {IfgRamp(OptimGrid, 0)},
     dem_lons   : {2},
     dem_flat   : {TRUE},
     fault      : {0},
     mmodel     : {ScenarioModel},
     smodel     : {ScenarioModel}]

OptimDem(in) ==
    GeoGrid(in.dem_lons, 2, IF in.dem_flat THEN FlatDem(OptimGrid) ELSE DemData(OptimGrid))

IdleWorker == [batch |-> <<>>, id |-> 0, pos |-> 0,
               mmodel |-> OptimMModel, smodel |-> OptimSModel, out |-> <<>>,
               ended |-> FALSE, ok |-> TRUE]

OptimIdle ==
    /\ o_pc = "idle"
    /\ o_in = [min_plevel |-> Levels[1], nprocs |-> 1, mwr |-> RainAt(OptimGrid, {}),
               swr |-> RainAt(OptimGrid, {}), ifg |-> IfgRamp(OptimGrid, 0),
               dem_lons |-> 2, dem_flat |-> FALSE, fault |-> 0, mmodel |-> OptimMModel,
               smodel |-> OptimSModel]
    /\ o_args = <<>>
    /\ o_pool = "none"
    /\ o_queue = <<>>
    /\ o_worker = [w \in 1..MaxProcs |-> IdleWorker]
    /\ o_outq = <<>>
    /\ o_value = <<>>
    /\ o_success = TRUE
    /\ o_left = 0
    /\ o_ret = <<>>
    /\ o_done = {}
    /\ o_failed = {}

OptimInit ==
    /\ o_pc = "start"
    /\ o_in \in OptimInputs \cup ScenarioInputs \cup GapInputs
    /\ o_args = <<>>
    /\ o_pool = "none"
    /\ o_queue = <<>>
    /\ o_worker = [w \in 1..MaxProcs |-> IdleWorker]
    /\ o_outq = <<>>
    /\ o_value = <<>>
    /\ o_success = TRUE
    /\ o_left = 0
    /\ o_ret = <<>>
    /\ o_done = {}
    /\ o_failed = {}

\* optim_era_delay up to the logging call: the level lookup, which raises
\* when the level is absent, then the candidate pairs
OptimLookup ==
    /\ o_pc = "start"
    /\ LET min_plevel_idx == FindLevel(Levels, o_in.min_plevel)
       IN IF min_plevel_idx = NotFound
          THEN /\ o_pc' = "raised_level"
               /\ o_args' = o_args
          ELSE /\ o_pc' = "args"
               /\ o_args' = Product(Plevels(Levels, min_plevel_idx))
    /\ UNCHANGED <<o_in, o_pool, o_queue, o_worker, o_outq, o_value, o_success,
                   o_left, o_ret, o_done, o_failed>>
    /\ UNCHANGED <<zvars, pvars, svars, lvars, jvars>>

\* with Pool() as p: p.starmap(...) hands the batches to the pool and blocks
OptimDispatch ==
    /\ o_pc = "args"
    /\ o_pc' = "waiting"
    /\ o_pool' = "open"
    /\ LET n  == Len(o_args)
           ch == Chunks(n, Chunksize(n, o_in.nprocs))
       IN /\ o_queue' = [c \in 1..Len(ch) |-> [id |-> c, tasks |-> ch[c]]]
          /\ o_left' = Len(ch)
          /\ o_value' = [i \in 1..n |-> NoResult]
    /\ UNCHANGED <<o_in, o_args, o_worker, o_outq, o_success, o_ret, o_done, o_failed>>
    /\ UNCHANGED <<zvars, pvars, svars, lvars, jvars>>

\* a worker takes the next batch; unpickling the batch gives it one fresh copy
\* of each model, shared by all the tasks of the batch
WorkerTake(w) ==
    /\ o_pc = "waiting"
    /\ w <= o_in.nprocs
    /\ o_worker[w].batch = <<>>
    /\ o_queue # <<>>
    /\ o_worker' = [o_worker EXCEPT ![w] =
                       [batch |-> Head(o_queue).tasks, id |-> Head(o_queue).id, pos |-> 1,
                        mmodel |-> o_in.mmodel, smodel |-> o_in.smodel, out |-> <<>>,
                        ended |-> FALSE, ok |-> TRUE]]
    /\ o_queue' = Tail(o_queue)
    /\ UNCHANGED <<o_pc, o_in, o_args, o_pool, o_outq, o_value, o_success, o_left,
                   o_ret, o_done, o_failed>>
    /\ UNCHANGED <<zvars, pvars, svars, lvars, jvars>>

\* MapResult._set that stores the results of a batch behind the results
\* that arrived before
MapSetArrival(value, success, ok, tasks, out) ==
    IF ok /\ success
    THEN LET free  == {i \in DOMAIN value : value[i] = NoResult}
             first == CHOOSE i \in free : \A k \in free : i <= k
         IN [value |-> [i \in DOMAIN value |->
                           IF i >= first /\ i < first + Len(out)
                           THEN out[i - first + 1]
                           ELSE value[i]],
             success |-> TRUE]
    ELSE [value |-> IF success THEN [i \in DOMAIN value |-> NoResult] ELSE value,
          success |-> FALSE]

\* MapResult._set that takes a failed batch for a finished one
MapSetMut(value, success, ok, tasks, out) ==
    [value |-> [i \in DOMAIN value |->
                   IF \E j \in DOMAIN out : tasks[j] = i
                   THEN out[CHOOSE j \in DOMAIN out : tasks[j] = i]
                   ELSE value[i]],
     success |-> success]

\* MapResult._set: a batch result arrives; the first failure replaces the
\* value by the exception, and the map is ready when no batch is left
MapSet(value, success, ok, tasks, out) ==
    IF ok /\ success
    THEN [value |-> [i \in DOMAIN value |->
                        IF \E j \in DOMAIN tasks : tasks[j] = i
                        THEN out[CHOOSE j \in DOMAIN tasks : tasks[j] = i]
                        ELSE value[i]],
          success |-> TRUE]
    ELSE [value |-> IF success THEN [i \in DOMAIN value |-> NoResult] ELSE value,
          success |-> FALSE]

\* the worker calls _optim_era_delay on the next task of its batch; an
\* exception ends the batch, and the worker holds an ended batch until it
\* has put it on the result queue
WorkerEval(w) ==
    /\ o_pc = "waiting"
    /\ o_worker[w].batch # <<>>
    /\ ~o_worker[w].ended
    /\ LET wk   == o_worker[w]
           t    == wk.batch[wk.pos]
           r    == optim_helper(OptimDem(o_in), o_in.ifg, wk.mmodel, wk.smodel,
                                o_in.mwr, o_in.swr, o_args[t][1], o_args[t][2])
           bad  == r.raised \/ o_in.fault = t
           out  == Append(wk.out, r.result)
           last == wk.pos = Len(wk.batch)
       IN /\ o_done' = IF bad THEN o_done ELSE o_done \cup {t}
          /\ o_failed' = IF bad THEN o_failed \cup {t} ELSE o_failed
          /\ o_worker' = [o_worker EXCEPT ![w] =
                             [wk EXCEPT !.pos = IF bad \/ last THEN wk.pos ELSE wk.pos + 1,
                                        !.mmodel = r.mmodel, !.smodel = r.smodel,
                                        !.out = out, !.ended = bad \/ last, !.ok = ~bad]]
    /\ UNCHANGED <<o_pc, o_in, o_args, o_pool, o_queue, o_outq, o_value, o_success,
                   o_left, o_ret>>
    /\ UNCHANGED <<zvars, pvars, svars, lvars, jvars>>

\* the worker puts its ended batch on the result queue, under the write lock
\* of the queue, and is free for the next batch
WorkerPut(w) ==
    /\ o_pc = "waiting"
    /\ o_worker[w].batch # <<>>
    /\ o_worker[w].ended
    /\ LET wk == o_worker[w]
       IN o_outq' = Append(o_outq, [ok |-> wk.ok, tasks |-> wk.batch, out |-> wk.out])
    /\ o_worker' = [o_worker EXCEPT ![w] = IdleWorker]
    /\ UNCHANGED <<o_pc, o_in, o_args, o_pool, o_queue, o_value, o_success, o_left,
                   o_ret, o_done, o_failed>>
    /\ UNCHANGED <<zvars, pvars, svars, lvars, jvars>>

\* the result handler of the parent takes the next ended batch from the
\* result queue and reports it to the map
HandleResult ==
    /\ o_pc = "waiting"
    /\ o_outq # <<>>
    /\ LET b == Head(o_outq)
           m == MapSet(o_value, o_success, b.ok, b.tasks, b.out)
       IN /\ o_value' = m.value
          /\ o_success' = m.success
    /\ o_left' = o_left - 1
    /\ o_outq' = Tail(o_outq)
    /\ UNCHANGED <<o_pc, o_in, o_args, o_pool, o_queue, o_worker, o_ret, o_done, o_failed>>
    /\ UNCHANGED <<zvars, pvars, svars, lvars, jvars>>

\* starmap returns the list, or raises the worker's exception, once every
\* batch has reported; leaving the with block ends the pool
OptimReturn ==
    /\ o_pc = "waiting"
    /\ o_left = 0
    /\ o_pool' = "closed"
    /\ IF o_success
       THEN /\ o_pc' = "returned"
            /\ o_ret' = o_value
       ELSE /\ o_pc' = "raised_worker"
            /\ o_ret' = o_ret
    /\ UNCHANGED <<o_in, o_args, o_queue, o_worker, o_outq, o_value, o_success,
                   o_left, o_done, o_failed>>
    /\ UNCHANGED <<zvars, pvars, svars, lvars, jvars>>

OptimNext ==
    \/ OptimLookup
    \/ OptimDispatch
    \/ \E w \in 1..MaxProcs : WorkerTake(w)
    \/ \E w \in 1..MaxProcs : WorkerEval(w)
    \/ \E w \in 1..MaxProcs : WorkerPut(w)
    \/ HandleResult
    \/ OptimReturn

(***************************************************************************)
(* calculate_era_zenith_delay, step by step                                *)
(***************************************************************************)
MaxDim == 3       \* largest latitude or longitude count of a DEM or model

\* insar.SAR(lons, lats, data, date)
SAR(lons, lats, data, date) == [lons |-> lons, lats |-> lats, data |-> data, date |-> date]

NoSAR == SAR(<<>>, <<>>, NoField, 0)
NoDelays == [wet |-> NoSAR, dry |-> NoSAR, total |-> NoSAR]

\* the coordinates of an axis with n points that starts behind origin
Coords(origin, n) == [i \in 1..n |-> origin + i]

\* largest date of a model and the shift of a DEM that is on another grid
MaxDate == 2
DemShift == 10

Geo(mlons, mlats, date, dlons, dlats) ==
    [mlons |-> mlons, mlats |-> mlats, date |-> date, dlons |-> dlons, dlats |-> dlats]

ZenithIdle ==
    /\ z_pc = "idle"
    /\ z_model = ERAModel(1, 1, BaseRelHum(Grid(1, 1)))
    /\ z_dem = GeoGrid(1, 1, DemData(Grid(1, 1)))
    /\ z_alloc = FALSE
    /\ z_n = 0
    /\ z_wet = NoField
    /\ z_dry = NoField
    /\ z_ret = NoDelays
    /\ z_geo = Geo(Coords(0, 1), Coords(0, 1), 1, Coords(0, 1), Coords(0, 1))

ZenithInit ==
    /\ z_pc = "entry"
    /\ \E mlat \in 1..MaxDim, mlon \in 1..MaxDim :
          z_model = ERAModel(mlat, mlon, BaseRelHum(Grid(mlat, mlon)))
    /\ \E dlat \in 1..MaxDim, dlon \in 1..MaxDim :
          z_dem = GeoGrid(dlon, dlat, DemData(Grid(dlat, dlon)))
    /\ z_alloc = FALSE
    /\ z_n = 0
    /\ z_wet = NoField
    /\ z_dry = NoField
    /\ z_ret = NoDelays
    /\ \E date \in 1..MaxDate, shift \in {0, DemShift} :
          z_geo = Geo(Coords(0, z_model.lons), Coords(0, z_model.lats), date,
                      Coords(shift, z_dem.lons), Coords(shift, z_dem.lats))

\* a size test placed after the allocation of the output arrays
ZenithCheckMut ==
    /\ z_pc = "entry"
    /\ z_alloc' = TRUE
    /\ z_pc' = IF GridMismatch(z_model, z_dem) THEN "raised" ELSE "integrating"
    /\ UNCHANGED <<z_geo, z_model, z_dem, z_n, z_wet, z_dry, z_ret>>
    /\ UNCHANGED <<ovars, pvars, svars, lvars, jvars>>

\* the size test: IndexError when the grids differ
ZenithCheck ==
    /\ z_pc = "entry"
    /\ z_pc' = IF GridMismatch(z_model, z_dem) THEN "raised" ELSE "checked"
    /\ UNCHANGED <<z_geo, z_model, z_dem, z_alloc, z_n, z_wet, z_dry, z_ret>>
    /\ UNCHANGED <<ovars, pvars, svars, lvars, jvars>>

\* np.empty for wet_delay and dry_delay
ZenithAllocate ==
    /\ z_pc = "checked"
    /\ z_pc' = "integrating"
    /\ z_alloc' = TRUE
    /\ UNCHANGED <<z_geo, z_model, z_dem, z_n, z_wet, z_dry, z_ret>>
    /\ UNCHANGED <<ovars, pvars, svars, lvars, jvars>>

\* the cell with number i of np.ndenumerate(dem), row by row
Cell(i, nx) == <<((i - 1) \div nx) + 1, ((i - 1) % nx) + 1>>

\* one turn of the loop of _calculate_zenith_delay_jit
ZenithCell ==
    /\ z_pc = "integrating"
    /\ z_n < z_dem.lats * z_dem.lons
    /\ LET c == Cell(z_n + 1, z_dem.lons)
           done == {Cell(i, z_dem.lons) : i \in 1..(z_n + 1)}
       IN /\ z_wet' = [p \in done |-> IF p = c THEN trapz(ppwv(z_model)[c], z_dem.data[c])
                                                 ELSE z_wet[p]]
          /\ z_dry' = [p \in done |-> IF p = c THEN trapz(DryRefract, z_dem.data[c])
                                                 ELSE z_dry[p]]
    /\ z_n' = z_n + 1
    /\ UNCHANGED <<z_pc, z_geo, z_model, z_dem, z_alloc, z_ret>>
    /\ UNCHANGED <<ovars, pvars, svars, lvars, jvars>>

\* a total delay that leaves the wet delay out
ZenithReturnDryOnly ==
    /\ z_pc = "integrating"
    /\ z_n = z_dem.lats * z_dem.lons
    /\ z_pc' = "returned"
    /\ z_ret' = [wet   |-> SAR(z_geo.mlons, z_geo.mlats, z_wet, z_geo.date),
                 dry   |-> SAR(z_geo.mlons, z_geo.mlats, z_dry, z_geo.date),
                 total |-> SAR(z_geo.mlons, z_geo.mlats, z_dry, z_geo.date)]
    /\ UNCHANGED <<z_geo, z_model, z_dem, z_alloc, z_n, z_wet, z_dry>>
    /\ UNCHANGED <<ovars, pvars, svars, lvars, jvars>>

\* the three SAR fields are built on the model's lons, lats and date and
\* returned
ZenithReturn ==
    /\ z_pc = "integrating"
    /\ z_n = z_dem.lats * z_dem.lons
    /\ z_pc' = "returned"
    /\ z_ret' = [wet   |-> SAR(z_geo.mlons, z_geo.mlats, z_wet, z_geo.date),
                 dry   |-> SAR(z_geo.mlons, z_geo.mlats, z_dry, z_geo.date),
                 total |-> SAR(z_geo.mlons, z_geo.mlats,
                               [p \in DOMAIN z_dry |-> z_dry[p] + z_wet[p]], z_geo.date)]
    /\ UNCHANGED <<z_geo, z_model, z_dem, z_alloc, z_n, z_wet, z_dry>>
    /\ UNCHANGED <<ovars, pvars, svars, lvars, jvars>>

ZenithNext ==
    \/ ZenithCheck
    \/ ZenithAllocate
    \/ ZenithCell
    \/ ZenithReturn

(***************************************************************************)
(* patches_era_delay and _optimise_zenith_delay                            *)
(***************************************************************************)
MaxNy == 3        \* largest number of grid rows
MaxNx == 6        \* largest number of grid columns


\* a stride as large as the patch: windows that do not overlap
StrideMut(size) == size

\* a stride rounded up instead of down
StrideCeil(size) == (size + 1) \div 2

\* int(patch_size / 2)
Stride(size) == size \div 2

\* view_as_windows raises ValueError for a window larger than the array and
\* for a step below 1
ViewFails(n, size) == size > n \/ size < 1 \/ Stride(size) < 1

\* number of windows view_as_windows cuts along an axis of length n
NWindows(n, size) == ((n - size) \div Stride(size)) + 1

\* the pixels of the window with 0-based index (y, x)
Window(y, x, patch) ==
    {<<r, c>> : r \in (y * Stride(patch[1]) + 1)..(y * Stride(patch[1]) + patch[1]),
                c \in (x * Stride(patch[2]) + 1)..(x * Stride(patch[2]) + patch[2])}

Restrict(f, W) == [p \in W |-> f[p]]

PatchGrid(in) == Grid(in.ny, in.nx)
PatchDem(in) == DemData(PatchGrid(in))
PatchMHum(in) == BaseRelHum(PatchGrid(in))
PatchSHum(in) ==
    IF in.twin THEN PatchMHum(in)
    ELSE [p \in PatchGrid(in) |-> [l \in 1..NLevels |-> BaseColumn[l] + 1]]

\* the arguments explored: grid and patch size, the level asked for, rainfall
\* at one pixel or nowhere on either date, a flat, a ramp or a curved
\* interferogram
PatchInputs ==
    UNION {[ny         : {ny},
            nx         : {nx},
            patch      : {<<2, px>> : px \in 1..MaxNx},
            min_plevel : MinPlevels,
            mwr        : {RainAt(Grid(ny, nx), {}), RainAt(Grid(ny, nx), {<<1, 1>>})},
            swr        : {RainAt(Grid(ny, nx), {}), RainAt(Grid(ny, nx), {<<1, 3>>})},
            ifg        : {IfgRamp(Grid(ny, nx), 0), IfgRamp(Grid(ny, nx), 3),
                           IfgCurve(Grid(ny, nx))},
            twin       : {FALSE}]
           : ny \in 2..MaxNy, nx \in 2..MaxNx}

\* arguments with the same humidity on both dates and rainfall at the same
\* pixel on both dates, over a flat interferogram: pairs of equal levels
\* cancel, so several pairs score the same
TwinInputs ==
    UNION {[ny         : {2},
            nx         : {nx},
            patch      : {<<2, 2>>},
            min_plevel : MinPlevels,
            mwr        : {RainAt(Grid(2, nx), {<<1, 1>>})},
            swr        : {RainAt(Grid(2, nx), {<<1, 1>>})},
            ifg        : {IfgRamp(Grid(2, nx), 0)},
            twin       : {TRUE}]
           : nx \in 2..3}

\* arguments with an interferogram that has one undefined pixel, in the first
\* window, with rainfall in that window
GapPatchInputs ==
    UNION {[ny         : {2},
            nx         : {nx},
            patch      : {<<2, 2>>},
            min_plevel : {Levels[2]},
            mwr        : {RainAt(Grid(2, nx), {<<1, 1>>})},
            swr        : {RainAt(Grid(2, nx), {}), RainAt(Grid(2, nx), {<<1, 3>>})},
            ifg        : {IfgGap(Grid(2, nx), {<<2, 1>>})},
            twin       : {FALSE}]
           : nx \in 2..4}

\* an array preallocated with NaN
ZerosNaN(P) == [p \in P |-> NaN]

\* np.zeros(dem.data.shape)
Zeros(P) == [p \in P |-> 0]

Outputs(mwet, mdry, swet, sdry, m_plevels, s_plevels) ==
    [mwet |-> mwet, mdry |-> mdry, swet |-> swet, sdry |-> sdry,
     m_plevels |-> m_plevels, s_plevels |-> s_plevels]

\* rel_hum of the caller's two profile objects as handed to the call
Profiles(in) == [mrel_hum |-> PatchMHum(in), srel_hum |-> PatchSHum(in)]

\* mrel_hum, srel_hum: rel_hum of pmmodel_obj and psmodel_obj; malias, salias:
\* that array is the window view of the caller's array, not a copy
NoSearch == [W |-> {}, idx |-> 0, pm |-> 0, ps |-> 0, mrel_hum |-> NoField,
             srel_hum |-> NoField, malias |-> FALSE, salias |-> FALSE,
             max_std |-> Inf, trials |-> 0,
             out |-> Outputs(NoField, NoField, NoField, NoField, NoField, NoField)]

PatchIdle ==
    /\ p_pc = "idle"
    /\ p_in = [ny |-> 2, nx |-> 2, patch |-> <<2, 2>>, min_plevel |-> Levels[1],
               mwr |-> Zeros(Grid(2, 2)), swr |-> Zeros(Grid(2, 2)),
               ifg |-> Zeros(Grid(2, 2)), twin |-> FALSE]
    /\ p_i = 0
    /\ p_out = Outputs(NoField, NoField, NoField, NoField, NoField, NoField)
    /\ p_written = {}
    /\ p_log = <<>>
    /\ p_search = NoSearch
    /\ p_profiles = Profiles(p_in)

PatchInit ==
    /\ p_pc = "start"
    /\ p_in \in PatchInputs \cup TwinInputs \cup GapPatchInputs
    /\ p_i = 0
    /\ p_out = Outputs(NoField, NoField, NoField, NoField, NoField, NoField)
    /\ p_written = {}
    /\ p_log = <<>>
    /\ p_search = NoSearch
    /\ p_profiles = Profiles(p_in)

\* number of windows per axis and the window np.ndindex hands out as number i
NWinY(in) == NWindows(in.ny, in.patch[1])
NWinX(in) == NWindows(in.nx, in.patch[2])
WindowNo(in, i) == Window((i - 1) \div NWinX(in), (i - 1) % NWinX(in), in.patch)

\* the window views are cut and the six output arrays preallocated with zeros
PatchStart ==
    /\ p_pc = "start"
    /\ IF ViewFails(p_in.ny, p_in.patch[1]) \/ ViewFails(p_in.nx, p_in.patch[2])
       THEN /\ p_pc' = "raised_view"
            /\ p_out' = p_out
       ELSE /\ p_pc' = "loop"
            /\ p_out' = LET z == Zeros(PatchGrid(p_in)) IN Outputs(z, z, z, z, z, z)
    /\ UNCHANGED <<p_in, p_i, p_written, p_log, p_search, p_profiles>>
    /\ UNCHANGED <<ovars, zvars, svars, lvars, jvars>>

\* an assignment that averages with what an earlier window wrote
WriteWindowBlend(a, W, v) ==
    [p \in DOMAIN a |-> IF p \in W THEN (IF a[p] = 0 THEN v[p] ELSE (a[p] + v[p]) \div 2)
                                    ELSE a[p]]

\* a[W] = v for an output array a seen through the view of window W
WriteWindow(a, W, v) == [p \in DOMAIN a |-> IF p \in W THEN v[p] ELSE a[p]]

WriteOutputs(out, W, o) ==
    Outputs(WriteWindow(out.mwet, W, o.mwet), WriteWindow(out.mdry, W, o.mdry),
            WriteWindow(out.swet, W, o.swet), WriteWindow(out.sdry, W, o.sdry),
            WriteWindow(out.m_plevels, W, o.m_plevels),
            WriteWindow(out.s_plevels, W, o.s_plevels))

\* the weather model and the DEM of a window
SubModel(in, rel_hum, W) == ERAModel(in.patch[1], in.patch[2], Restrict(rel_hum, W))
SubDem(in, W) == GeoGrid(in.patch[2], in.patch[1], Restrict(PatchDem(in), W))

NoRain(wr, W) == SumSet(wr, W) = 0

\* the zenith delays of a window computed from the two profiles as they are,
\* without any injection, with NaN level maps
ZenithOutputs(in, profiles, W) ==
    LET m == calculate_era_zenith_delay(SubModel(in, profiles.mrel_hum, W), SubDem(in, W))
        s == calculate_era_zenith_delay(SubModel(in, profiles.srel_hum, W), SubDem(in, W))
        nan == [p \in W |-> NaN]
    IN Outputs(m.wet, m.dry, s.wet, s.dry, nan, nan)

\* the pure correction of a window: its zenith delays without any injection
PureOutputs(in, W) == ZenithOutputs(in, Profiles(in), W)

\* what a finished window leaves behind: its number, its branch, its final
\* std, its number of trials and the six patches assigned to its views
LogEntry(i, branch, std, trials, out) ==
    [win |-> i, branch |-> branch, std |-> std, trials |-> trials, out |-> out]

\* the no-rain branch that leaves the level maps as preallocated
WindowNoRainMut ==
    /\ p_pc = "loop"
    /\ p_i < NWinY(p_in) * NWinX(p_in)
    /\ LET W == WindowNo(p_in, p_i + 1)
           o == ZenithOutputs(p_in, p_profiles, W)
       IN /\ NoRain(p_in.mwr, W) /\ NoRain(p_in.swr, W)
          /\ p_out' = WriteOutputs(p_out, W, [o EXCEPT !.m_plevels = Restrict(p_out.m_plevels, W),
                                                       !.s_plevels = Restrict(p_out.s_plevels, W)])
          /\ p_written' = p_written \cup W
          /\ p_log' = Append(p_log, LogEntry(p_i + 1, "SKIP_PURE", Inf, 0, o))
    /\ p_i' = p_i + 1
    /\ UNCHANGED <<p_pc, p_in, p_search, p_profiles>>
    /\ UNCHANGED <<ovars, zvars, svars, lvars, jvars>>

\* a window without rainfall on both dates: the pure correction is written
\* and both level maps become NaN
WindowNoRain ==
    /\ p_pc = "loop"
    /\ p_i < NWinY(p_in) * NWinX(p_in)
    /\ LET W == WindowNo(p_in, p_i + 1)
           o == ZenithOutputs(p_in, p_profiles, W)
       IN /\ NoRain(p_in.mwr, W) /\ NoRain(p_in.swr, W)
          /\ p_out' = WriteOutputs(p_out, W, o)
          /\ p_written' = p_written \cup W
          /\ p_log' = Append(p_log, LogEntry(p_i + 1, "SKIP_PURE", Inf, 0, o))
    /\ p_i' = p_i + 1
    /\ UNCHANGED <<p_pc, p_in, p_search, p_profiles>>
    /\ UNCHANGED <<ovars, zvars, svars, lvars, jvars>>

\* a failed level lookup that gives up the window and goes on with the next
SearchEnterSkip ==
    /\ p_pc = "loop"
    /\ p_i < NWinY(p_in) * NWinX(p_in)
    /\ LET W == WindowNo(p_in, p_i + 1)
           min_plevel_idx == FindLevel(Levels, p_in.min_plevel)
       IN /\ ~(NoRain(p_in.mwr, W) /\ NoRain(p_in.swr, W))
          /\ IF min_plevel_idx = NotFound
             THEN /\ p_pc' = "loop"
                  /\ p_search' = p_search
             ELSE /\ p_pc' = "trial"
                  /\ p_search' = [W |-> W, idx |-> min_plevel_idx, pm |-> 1, ps |-> 1,
                                  mrel_hum |-> Restrict(p_profiles.mrel_hum, W),
                                  srel_hum |-> Restrict(p_profiles.srel_hum, W),
                                  malias |-> TRUE, salias |-> TRUE,
                                  max_std |-> Inf, trials |-> 0,
                                  out |-> ZenithOutputs(p_in, p_profiles, W)]
    /\ p_i' = p_i + 1
    /\ UNCHANGED <<p_in, p_out, p_written, p_log, p_profiles>>
    /\ UNCHANGED <<ovars, zvars, svars, lvars, jvars>>

\* a window with rainfall enters _optimise_zenith_delay: the level lookup,
\* which raises when the level is absent, then the locals up to the loops
SearchEnter ==
    /\ p_pc = "loop"
    /\ p_i < NWinY(p_in) * NWinX(p_in)
    /\ LET W == WindowNo(p_in, p_i + 1)
           min_plevel_idx == FindLevel(Levels, p_in.min_plevel)
       IN /\ ~(NoRain(p_in.mwr, W) /\ NoRain(p_in.swr, W))
          /\ IF min_plevel_idx = NotFound
             THEN /\ p_pc' = "raised_level"
                  /\ p_search' = p_search
             ELSE /\ p_pc' = "trial"
                  /\ p_search' = [W |-> W, idx |-> min_plevel_idx, pm |-> 1, ps |-> 1,
                                  mrel_hum |-> Restrict(p_profiles.mrel_hum, W),
                                  srel_hum |-> Restrict(p_profiles.srel_hum, W),
                                  malias |-> TRUE, salias |-> TRUE,
                                  max_std |-> Inf, trials |-> 0,
                                  out |-> ZenithOutputs(p_in, p_profiles, W)]
    /\ p_i' = p_i + 1
    /\ UNCHANGED <<p_in, p_out, p_written, p_log, p_profiles>>
    /\ UNCHANGED <<ovars, zvars, svars, lvars, jvars>>

\* an acceptance test that lets a tie in
StdLessOrEqual(std, max_std) == std # NaN /\ (max_std = Inf \/ std <= max_std)

\* a comparison that takes a NaN std for a number below every other
StdLessNaN(std, max_std) == max_std = Inf \/ std < max_std

\* corrected_ifg.std() < max_std: false for a NaN std
StdLess(std, max_std) == std # NaN /\ (max_std = Inf \/ std < max_std)

\* a range that is not cut down for a side without rainfall
LastIdxAlways(wr, W, idx) == idx

\* last index of the loop over a side's levels
LastIdx(wr, W, idx) == IF NoRain(wr, W) THEN 1 ELSE idx

\* a score that hands back the slant delays it was computed on
ScoreSlant(in, W, mrel_hum, srel_hum) ==
    LET m == calculate_era_zenith_delay(SubModel(in, mrel_hum, W), SubDem(in, W))
        s == calculate_era_zenith_delay(SubModel(in, srel_hum, W), SubDem(in, W))
    IN [std |-> ResidualStd(Restrict(in.ifg, W), m.wet, m.dry, s.wet, s.dry),
        mwet |-> zenith2slant(m.wet), mdry |-> zenith2slant(m.dry),
        swet |-> zenith2slant(s.wet), sdry |-> zenith2slant(s.dry)]

\* the score of a window for given humidities: std of the residual on the
\* slant-projected delays, with the zenith delays it was computed from
Score(in, W, mrel_hum, srel_hum) ==
    LET m == calculate_era_zenith_delay(SubModel(in, mrel_hum, W), SubDem(in, W))
        s == calculate_era_zenith_delay(SubModel(in, srel_hum, W), SubDem(in, W))
    IN [std |-> ResidualStd(Restrict(in.ifg, W), m.wet, m.dry, s.wet, s.dry),
        mwet |-> m.wet, mdry |-> m.dry, swet |-> s.wet, sdry |-> s.dry]

\* rel_hum of a model object: the array and whether it is the caller's view
Hum(data, alias) == [data |-> data, alias |-> alias]

\* a reset that binds the window view itself instead of a copy of it
ResetNoCopy(obj, orig) == Hum(orig.data, TRUE)

\* a reset that is left out: the object keeps the array of the trial before
ResetSkipped(obj, orig) == obj

\* pmmodel_obj.rel_hum = pmrel_hum.copy(): the object gets a fresh copy of the
\* window view of the caller's array
Reset(obj, orig) == Hum(orig.data, FALSE)

\* the guarded add_rainfall call of a trial, in place on the object's array
Inject(obj, no_rain, wr, plevel) ==
    IF no_rain THEN obj
    ELSE Hum(add_rainfall(obj.data, wr, plevel, MaxPlevel), obj.alias)

\* the caller's array after a trial: written through the window view when the
\* object's array is that view
ThroughView(a, W, obj) == IF obj.alias THEN WriteWindow(a, W, obj.data) ELSE a

\* one turn of the inner loop: reset both humidities to the originals, inject
\* on the sides with rainfall, score, and accept on a strict improvement
Trial ==
    /\ p_pc = "trial"
    /\ p_search.pm <= LastIdx(p_in.mwr, p_search.W, p_search.idx)
    /\ LET W   == p_search.W
           pm  == p_search.pm
           ps  == p_search.ps
           no_master_rain == NoRain(p_in.mwr, W)
           no_slave_rain  == NoRain(p_in.swr, W)
           mh0 == Hum(Restrict(p_profiles.mrel_hum, W), TRUE)
           sh0 == Hum(Restrict(p_profiles.srel_hum, W), TRUE)
           mh  == Inject(Reset(Hum(p_search.mrel_hum, p_search.malias), mh0),
                         no_master_rain, Restrict(p_in.mwr, W), Levels[pm])
           sh  == Inject(Reset(Hum(p_search.srel_hum, p_search.salias), sh0),
                         no_slave_rain, Restrict(p_in.swr, W), Levels[ps])
           sc  == Score(p_in, W, mh.data, sh.data)
           accept == StdLess(sc.std, p_search.max_std)
           last_ps == ps = LastIdx(p_in.swr, W, p_search.idx)
       IN /\ p_search' =
             [p_search EXCEPT
                 !.pm = IF last_ps THEN pm + 1 ELSE pm,
                 !.ps = IF last_ps THEN 1 ELSE ps + 1,
                 !.mrel_hum = mh.data,
                 !.srel_hum = sh.data,
                 !.malias = mh.alias,
                 !.salias = sh.alias,
                 !.trials = @ + 1,
                 !.max_std = IF accept THEN sc.std ELSE @,
                 !.out = IF accept
                         THEN Outputs(sc.mwet, sc.mdry, sc.swet, sc.sdry,
                                      [p \in W |-> IF no_master_rain THEN NaN ELSE Levels[pm]],
                                      [p \in W |-> IF no_slave_rain THEN NaN ELSE Levels[ps]])
                         ELSE @]
          /\ p_profiles' = [mrel_hum |-> ThroughView(p_profiles.mrel_hum, W, mh),
                            srel_hum |-> ThroughView(p_profiles.srel_hum, W, sh)]
    /\ UNCHANGED <<p_pc, p_in, p_i, p_out, p_written, p_log>>
    /\ UNCHANGED <<ovars, zvars, svars, lvars, jvars>>

\* _optimise_zenith_delay returns and its six patches are written through
\* the window views
SearchReturn ==
    /\ p_pc = "trial"
    /\ p_search.pm > LastIdx(p_in.mwr, p_search.W, p_search.idx)
    /\ p_pc' = "loop"
    /\ p_out' = WriteOutputs(p_out, p_search.W, p_search.out)
    /\ p_written' = p_written \cup p_search.W
    /\ p_log' = Append(p_log, LogEntry(p_i, "SEARCHING", p_search.max_std, p_search.trials,
                                        p_search.out))
    /\ p_search' = NoSearch
    /\ UNCHANGED <<p_in, p_i, p_profiles>>
    /\ UNCHANGED <<ovars, zvars, svars, lvars, jvars>>

\* all windows done: the six fields are returned
PatchReturn ==
    /\ p_pc = "loop"
    /\ p_i = NWinY(p_in) * NWinX(p_in)
    /\ p_pc' = "returned"
    /\ UNCHANGED <<p_in, p_i, p_out, p_written, p_log, p_search, p_profiles>>
    /\ UNCHANGED <<ovars, zvars, svars, lvars, jvars>>

PatchNext ==
    \/ PatchStart
    \/ WindowNoRain
    \/ SearchEnter
    \/ Trial
    \/ SearchReturn
    \/ PatchReturn

(***************************************************************************)
(* plot_sar_delay                                                          *)
(***************************************************************************)
\* the selectors plot_sar_delay accepts
Kinds == {"total", "dry", "wet", "liquid"}

\* the selectors explored: the four accepted ones, the hydrostatic selector
\* of plot_train_sar_delay and a capitalised one
KindArgs == Kinds \cup {"hydro", "Total"}

Date(y, m, d) == [y |-> y, m |-> m, d |-> d]
NoDate == Date(0, 0, 0)

IsLeap(y) == (y % 4 = 0 /\ y % 100 # 0) \/ y % 400 = 0

DaysIn(y, m) ==
    IF m = 2 THEN (IF IsLeap(y) THEN 29 ELSE 28)
    ELSE IF m \in {4, 6, 9, 11} THEN 30 ELSE 31

IsDate(t) == t.m \in 1..12 /\ t.d \in 1..DaysIn(t.y, t.m)

\* the year, month and day fields of the date texts explored
DateTexts == {Date(y, m, d) : y \in {2015, 2016}, m \in {2, 12, 13}, d \in {0, 29, 31}}

\* datetime.strptime(date, '%Y%m%d').date(): the date of a text whose fields
\* form a calendar date, NoDate for the ValueError of any other text
strptime(t) == IF IsDate(t) THEN Date(t.y, t.m, t.d) ELSE NoDate

\* date.strftime('%Y%m%d')
strftime(date) == date.y * 10000 + date.m * 100 + date.d

\* a date argument: a text (str) or a date object
DateArgs ==
    {[str |-> TRUE, text |-> t] : t \in DateTexts}
        \cup {[str |-> FALSE, text |-> t] : t \in {u \in DateTexts : IsDate(u)}}

\* the files of the scratch directory a call may open
PlotFiles == {"delay", "grid", "ifg"}

PlotInputs ==
    [date   : DateArgs,
     kind   : KindArgs,
     zenith : BOOLEAN,
     files  : SUBSET PlotFiles]

PlotIdle ==
    /\ s_pc = "idle"
    /\ s_in = [date |-> [str |-> FALSE, text |-> NoDate], kind |-> "total",
               zenith |-> FALSE, files |-> {}]
    /\ s_date = NoDate
    /\ s_err = "none"
    /\ s_reads = <<>>

PlotInit ==
    /\ s_pc = "start"
    /\ s_in \in PlotInputs
    /\ s_date = NoDate
    /\ s_err = "none"
    /\ s_reads = <<>>

\* if isinstance(date, str): date = datetime.strptime(...).date()
PlotParseDate ==
    /\ s_pc = "start"
    /\ LET date == IF s_in.date.str THEN strptime(s_in.date.text) ELSE s_in.date.text
       IN IF date = NoDate
          THEN /\ s_pc' = "raised"
               /\ s_err' = "ValueError"
               /\ s_date' = s_date
          ELSE /\ s_pc' = "parsed"
               /\ s_err' = s_err
               /\ s_date' = date
    /\ UNCHANGED <<s_in, s_reads>>
    /\ UNCHANGED <<ovars, zvars, pvars, lvars, jvars>>

\* the path of the delay file: directory, date stamp and selector
DelayFile(date, kind, zenith) ==
    <<IF zenith THEN "zenith_delays" ELSE "slant_delays", strftime(date), kind>>

\* a selector test placed behind the load of the delay file
PlotCheckKindLate ==
    /\ s_pc = "parsed"
    /\ s_reads' = Append(s_reads, DelayFile(s_date, s_in.kind, s_in.zenith))
    /\ IF s_in.kind \notin Kinds
       THEN /\ s_pc' = "raised"
            /\ s_err' = "KeyError"
       ELSE /\ s_pc' = "checked"
            /\ s_err' = s_err
    /\ UNCHANGED <<s_in, s_date>>
    /\ UNCHANGED <<ovars, zvars, pvars, lvars, jvars>>

\* if kind not in ('total', 'dry', 'wet', 'liquid'): raise KeyError
PlotCheckKind ==
    /\ s_pc = "parsed"
    /\ IF s_in.kind \notin Kinds
       THEN /\ s_pc' = "raised"
            /\ s_err' = "KeyError"
       ELSE /\ s_pc' = "checked"
            /\ s_err' = s_err
    /\ UNCHANGED <<s_in, s_date, s_reads>>
    /\ UNCHANGED <<ovars, zvars, pvars, lvars, jvars>>

\* a file is opened: the next position, or the error of a missing file
PlotOpen(file, path, next) ==
    /\ s_reads' = Append(s_reads, path)
    /\ IF file \in s_in.files
       THEN /\ s_pc' = next
            /\ s_err' = s_err
       ELSE /\ s_pc' = "raised"
            /\ s_err' = "FileNotFoundError"
    /\ UNCHANGED <<s_in, s_date>>
    /\ UNCHANGED <<ovars, zvars, pvars, lvars, jvars>>

\* delay = np.load(delay_file)
PlotLoadDelay ==
    /\ s_pc = "checked"
    /\ PlotOpen("delay", DelayFile(s_date, s_in.kind, s_in.zenith), "delay_loaded")

\* lons, lats = workflow.read_grid_from_file(.../grid.txt)
PlotReadGrid ==
    /\ s_pc = "delay_loaded"
    /\ PlotOpen("grid", <<"grid.txt">>, "grid_read")

\* ifg_data = np.load(ifg_path)
PlotLoadIfg ==
    /\ s_pc = "grid_read"
    /\ PlotOpen("ifg", <<"master_atmosphere">>, "ifg_loaded")

\* the masks, the figure, its title and its output
PlotShow ==
    /\ s_pc = "ifg_loaded"
    /\ s_pc' = "plotted"
    /\ UNCHANGED <<s_in, s_date, s_err, s_reads>>
    /\ UNCHANGED <<ovars, zvars, pvars, lvars, jvars>>

PlotNext ==
    \/ PlotParseDate
    \/ PlotCheckKind
    \/ PlotLoadDelay
    \/ PlotReadGrid
    \/ PlotLoadIfg
    \/ PlotShow

(***************************************************************************)
(* liquid_zenith_delay                                                     *)
(***************************************************************************)
MaxCells == 2     \* largest number of grid cells of a liquid water field
MaxLwc == 2       \* largest liquid water content and cloud thickness

LiquidFactor == 145   \* 0.145, the delay being kept in thousandths of a cm

\* a cloud thickness: one float, or an array with a value per grid cell
Scalar(value) == [scalar |-> TRUE, value |-> value, data |-> NoField]
Field(data) == [scalar |-> FALSE, value |-> 0, data |-> data]

\* a thickness array spread from its first cell
BroadcastFirst(cloud_thickness, P) ==
    [p \in P |-> IF cloud_thickness.scalar THEN cloud_thickness.value
                 ELSE cloud_thickness.data[<<1, 1>>]]

\* numpy broadcasting of the thickness over the cells of lwc.data
Broadcast(cloud_thickness, P) ==
    [p \in P |-> IF cloud_thickness.scalar THEN cloud_thickness.value
                 ELSE cloud_thickness.data[p]]

\* delay = 0.145 * lwc.data * cloud_thickness
LiquidDelay(lwc, cloud_thickness) ==
    LET thick == Broadcast(cloud_thickness, DOMAIN lwc.data)
    IN [p \in DOMAIN lwc.data |-> (LiquidFactor * lwc.data[p]) * thick[p]]

\* liquid_zenith_delay(lwc, cloud_thickness)
liquid_zenith_delay(lwc, cloud_thickness) ==
    SAR(lwc.lons, lwc.lats, LiquidDelay(lwc, cloud_thickness), lwc.date)

\* the arguments explored: a one-row field of liquid water content on a grid
\* of its own, with one thickness or one thickness per cell
LiquidInputs ==
    UNION {[lwc : {SAR(Coords(shift, n), Coords(shift, 1), data, date) :
                      data \in [Grid(1, n) -> 0..MaxLwc], date \in 1..MaxDate,
                      shift \in {0, DemShift}},
            cloud_thickness : {Scalar(k) : k \in 0..MaxLwc}
                                 \cup {Field(f) : f \in [Grid(1, n) -> 1..MaxLwc]}]
           : n \in 1..MaxCells}

LiquidIdle ==
    /\ l_pc = "idle"
    /\ l_in = [lwc |-> NoSAR, cloud_thickness |-> Scalar(0)]
    /\ l_delay = NoField
    /\ l_ret = NoSAR

LiquidInit ==
    /\ l_pc = "start"
    /\ l_in \in LiquidInputs
    /\ l_delay = NoField
    /\ l_ret = NoSAR

\* delay = 0.145 * lwc.data * cloud_thickness
LiquidMultiply ==
    /\ l_pc = "start"
    /\ l_pc' = "multiplied"
    /\ l_delay' = LiquidDelay(l_in.lwc, l_in.cloud_thickness)
    /\ UNCHANGED <<l_in, l_ret>>
    /\ UNCHANGED <<ovars, zvars, pvars, svars, jvars>>

\* return SAR(lwc.lons, lwc.lats, delay, lwc.date)
LiquidReturn ==
    /\ l_pc = "multiplied"
    /\ l_pc' = "returned"
    /\ l_ret' = SAR(l_in.lwc.lons, l_in.lwc.lats, l_delay, l_in.lwc.date)
    /\ UNCHANGED <<l_in, l_delay>>
    /\ UNCHANGED <<ovars, zvars, pvars, svars, jvars>>

LiquidNext ==
    \/ LiquidMultiply
    \/ LiquidReturn

(***************************************************************************)
(* _calculate_zenith_delay_jit on one cell                                 *)
(***************************************************************************)
\* the constants of Hanssen 2001, k1, k2, Rd and Rv in thousandths
k1 == 776
k2 == 716
k3 == 3750
Rd == 287053
Rv == 461524

nheights == 1024    \* points of the refined vertical sampling
Ceiling == 15000    \* top of the sampling in metres

\* the heights of the two samples of the column: sea level and the ceiling
ColumnHeights == <<0, Ceiling>>

\* a column: the values at the two sample heights
Column(bottom, top) == <<bottom, top>>

\* np.linspace(dem[y, x], 15000, nheights)[i], i counted from 0
new_heights(dem, i) == dem + (i * (Ceiling - dem)) \div (nheights - 1)

\* a / c to the nearest integer, and the floor of a * b / c computed without
\* leaving 32 bits (a >= 0, b >= 0, c > 0)
DivRound(a, c) == (a + c \div 2) \div c
MulDiv(a, b, c) == (a \div c) * b + ((a % c) * b) \div c

\* interp1d_jit(height, values, new_heights, out)[i]: linear between the
\* samples, in hundredths of the unit of the column
interp1d(values, h) ==
    100 * values[1]
        + DivRound(100 * (values[2] - values[1]) * (h - ColumnHeights[1]),
                   ColumnHeights[2] - ColumnHeights[1])

\* a pressure left in hPa
ToPaSkipped(hpa) == hpa

\* ipressure *= 100, ippwv *= 100: hPa to Pa, on the interpolated values
ToPa(hpa) == hpa * 100

\* wet_refract and dry_refract at one height, in hundredths, from a
\* pressure in hundredths of a pascal and a temperature in hundredths of a
\* kelvin
WetRefractivity(ppwv_pa, temp) ==
    MulDiv(ppwv_pa, k2 - (k1 * Rd) \div Rv, 10 * temp)
        + MulDiv(MulDiv(ppwv_pa, 10 * k3, temp), 1000, temp)
DryRefractivity(pressure_pa, temp) == MulDiv(pressure_pa, k1, 10 * temp)

wet_refract(in, i) ==
    LET h == new_heights(in.dem, i)
    IN WetRefractivity(ToPa(interp1d(in.ppwv, h)), interp1d(in.temp, h))
dry_refract(in, i) ==
    LET h == new_heights(in.dem, i)
    IN DryRefractivity(ToPa(interp1d(in.pressure, h)), interp1d(in.temp, h))

\* one interval of trapz(x, y), twice its area
Trapezoid(x0, x1, y0, y1) == (x1 - x0) * (y0 + y1)

\* 10**-6 * trapz * 100 in millionths of a centimetre, from twice the area
\* of a refractivity in hundredths
ToCentimetres(area2) == area2 \div 2

\* the cells explored: a surface at sea level or at 1500 m, and columns that
\* are constant or fall off with height
JitInputs ==
    [dem      : {0, 1500},
     temp     : {Column(250, 250), Column(300, 250)},
     ppwv     : {Column(10, 10), Column(10, 0)},
     pressure : {Column(1000, 1000), Column(1000, 200)}]

JitIdle ==
    /\ j_pc = "idle"
    /\ j_in = [dem |-> 0, temp |-> Column(250, 250), ppwv |-> Column(0, 0),
               pressure |-> Column(0, 0)]
    /\ j_i = 0
    /\ j_wet = 0
    /\ j_dry = 0
    /\ j_out = [wet |-> 0, dry |-> 0]

JitInit ==
    /\ j_pc = "start"
    /\ j_in \in JitInputs
    /\ j_i = 0
    /\ j_wet = 0
    /\ j_dry = 0
    /\ j_out = [wet |-> 0, dry |-> 0]

\* the sampling, the three interpolations and the two refractivity profiles
JitRefract ==
    /\ j_pc = "start"
    /\ j_pc' = "integrate"
    /\ UNCHANGED <<j_in, j_i, j_wet, j_dry, j_out>>
    /\ UNCHANGED <<ovars, zvars, pvars, svars, lvars>>

\* trapz takes the next interval of both profiles
JitTrapz ==
    /\ j_pc = "integrate"
    /\ j_i < nheights - 1
    /\ LET x0 == new_heights(j_in.dem, j_i)
           x1 == new_heights(j_in.dem, j_i + 1)
       IN /\ j_wet' = j_wet + Trapezoid(x0, x1, wet_refract(j_in, j_i),
                                        wet_refract(j_in, j_i + 1))
          /\ j_dry' = j_dry + Trapezoid(x0, x1, dry_refract(j_in, j_i),
                                        dry_refract(j_in, j_i + 1))
    /\ j_i' = j_i + 1
    /\ UNCHANGED <<j_pc, j_in, j_out>>
    /\ UNCHANGED <<ovars, zvars, pvars, svars, lvars>>

\* the two integrals are scaled to centimetres and stored
JitStore ==
    /\ j_pc = "integrate"
    /\ j_i = nheights - 1
    /\ j_pc' = "returned"
    /\ j_out' = [wet |-> ToCentimetres(j_wet), dry |-> ToCentimetres(j_dry)]
    /\ UNCHANGED <<j_in, j_i, j_wet, j_dry>>
    /\ UNCHANGED <<ovars, zvars, pvars, svars, lvars>>

JitNext ==
    \/ JitRefract
    \/ JitTrapz
    \/ JitStore

(***************************************************************************)
(* Specifications                                                          *)
(***************************************************************************)
vars == <<ovars, zvars, pvars, svars, lvars, jvars>>

\* _calculate_zenith_delay_jit on one cell
JitSpecInit == JitInit /\ OptimIdle /\ ZenithIdle /\ PatchIdle /\ PlotIdle /\ LiquidIdle
SpecJit == JitSpecInit /\ [][JitNext]_vars

\* one call of plot_sar_delay
PlotSpecInit == PlotInit /\ OptimIdle /\ ZenithIdle /\ PatchIdle /\ LiquidIdle /\ JitIdle
SpecPlot == PlotSpecInit /\ [][PlotNext]_vars

\* one call of liquid_zenith_delay
LiquidSpecInit == LiquidInit /\ OptimIdle /\ ZenithIdle /\ PatchIdle /\ PlotIdle /\ JitIdle
SpecLiquid == LiquidSpecInit /\ [][LiquidNext]_vars

\* one call of optim_era_delay
OptimSpecInit == OptimInit /\ ZenithIdle /\ PatchIdle /\ PlotIdle /\ LiquidIdle /\ JitIdle
SpecOptim == OptimSpecInit /\ [][OptimNext]_vars

\* one call of calculate_era_zenith_delay
ZenithSpecInit == ZenithInit /\ OptimIdle /\ PatchIdle /\ PlotIdle /\ LiquidIdle /\ JitIdle
SpecZenith == ZenithSpecInit /\ [][ZenithNext]_vars

\* one call of patches_era_delay
PatchSpecInit == PatchInit /\ OptimIdle /\ ZenithIdle /\ PlotIdle /\ LiquidIdle /\ JitIdle
SpecPatch == PatchSpecInit /\ [][PatchNext]_vars

(***************************************************************************)
(* Properties of optim_era_delay                                           *)
(***************************************************************************)
\* index of min_plevel in the level list (k + 1 for the 0-based index k)
OptimIdx == FindLevel(Levels, o_in.min_plevel)

\* C1: when min_plevel is at index k, the returned list holds exactly one
\* record for every ordered pair of the levels at indices 0..k and nothing
\* else: (k+1)^2 records
C1_OneRecordPerPair ==
    o_pc = "returned" =>
        /\ Len(o_ret) = OptimIdx * OptimIdx
        /\ \A a \in 1..OptimIdx : \A b \in 1..OptimIdx :
              Cardinality({i \in DOMAIN o_ret :
                              /\ o_ret[i].master_p = Levels[a]
                              /\ o_ret[i].slave_p = Levels[b]}) = 1
        /\ \A i \in DOMAIN o_ret :
              \E a \in 1..OptimIdx : \E b \in 1..OptimIdx :
                  /\ o_ret[i].master_p = Levels[a]
                  /\ o_ret[i].slave_p = Levels[b]

C1_Witness ==
    /\ o_pc = "returned"
    /\ OptimIdx = NLevels
    /\ Len(o_ret) = NLevels * NLevels

\* the std of a pair when the rainfall is injected at exactly its two levels
\* into the original humidity of the two models
FreshStd(in, master_p, slave_p) ==
    optim_helper(OptimDem(in), in.ifg, in.mmodel, in.smodel, in.mwr, in.swr,
                 master_p, slave_p).result.std

\* C2: the std recorded for each pair is the one obtained by injecting at
\* exactly its two levels into the original humidity, whatever pairs were
\* evaluated earlier on the same profile objects
C2_StdFromOriginalHumidity ==
    o_pc = "returned" =>
        \A i \in DOMAIN o_ret :
            o_ret[i].std = FreshStd(o_in, o_ret[i].master_p, o_ret[i].slave_p)

\* C3: when min_plevel is no level of the master profile the call raises the
\* level error before any pair is built or evaluated and before the pool
\* exists, and returns no list; it raises that error in no other case
C3_LevelNotFoundFirst ==
    /\ o_in.min_plevel \notin Range(Levels) =>
          /\ o_pc \in {"start", "raised_level"}
          /\ o_args = <<>>
          /\ o_pool = "none"
          /\ o_done \cup o_failed = {}
          /\ o_ret = <<>>
    /\ o_pc = "raised_level" => o_in.min_plevel \notin Range(Levels)

C3_Witness ==
    /\ o_pc = "raised_level"
    /\ o_in.min_plevel = AbsentLevel

\* the results of the pool for given arguments: every batch is evaluated in
\* order on its own copy of the two models
RECURSIVE BatchResults(_, _, _, _, _)
BatchResults(in, args, tasks, mmodel, smodel) ==
    IF tasks = <<>> THEN <<>>
    ELSE LET r == optim_helper(OptimDem(in), in.ifg, mmodel, smodel, in.mwr, in.swr,
                               args[Head(tasks)][1], args[Head(tasks)][2])
         IN <<r.result>> \o BatchResults(in, args, Tail(tasks), r.mmodel, r.smodel)

PoolResults(in) ==
    LET args == Product(Plevels(Levels, FindLevel(Levels, in.min_plevel)))
        n    == Len(args)
        cs   == Chunksize(n, in.nprocs)
        ch   == Chunks(n, cs)
    IN [i \in 1..n |->
          LET c == ((i - 1) \div cs) + 1
          IN BatchResults(in, args, ch[c], in.mmodel, in.smodel)[i - (c - 1) * cs]]

\* the call with master and slave swapped and the interferogram negated
Swapped(in) ==
    [in EXCEPT !.mmodel = in.smodel, !.smodel = in.mmodel,
               !.mwr = in.swr, !.swr = in.mwr,
               !.ifg = [p \in DOMAIN in.ifg |-> 0 - in.ifg[p]]]

\* C8: after swapping master and slave and negating the interferogram, the
\* std of the pair (a, b) is the std of the pair (b, a) of the original run
C8_SwapSymmetry ==
    o_pc = "returned" =>
        LET sw == PoolResults(Swapped(o_in))
        IN \A i \in DOMAIN o_ret : \A j \in DOMAIN sw :
              (sw[j].master_p = o_ret[i].slave_p /\ sw[j].slave_p = o_ret[i].master_p)
                  => sw[j].std = o_ret[i].std

\* C10: the call returns only after every dispatched candidate completed, and
\* once a candidate raised in a worker the call raises and returns no list,
\* neither full nor partial
C10_AllOrNothing ==
    /\ o_pc = "returned" =>
          /\ o_done = 1..Len(o_args)
          /\ o_failed = {}
          /\ o_queue = <<>>
          /\ o_outq = <<>>
          /\ \A w \in 1..MaxProcs : o_worker[w].batch = <<>>
          /\ Len(o_ret) = Len(o_args)
          /\ \A i \in DOMAIN o_ret : o_ret[i] # NoResult
    /\ o_failed # {} =>
          /\ o_pc \in {"waiting", "raised_worker"}
          /\ o_ret = <<>>
    /\ o_pc = "raised_worker" => o_failed # {}

C10_Witness ==
    /\ o_pc = "raised_worker"
    /\ o_done # {}
    /\ o_failed # {}

\* the action of the map agrees with the batch-wise evaluation
PoolAgrees == o_pc = "returned" => o_ret = PoolResults(o_in)

\* the call runs the flat scenario
InScenario ==
    /\ o_in.min_plevel = ScenarioPlevel
    /\ o_in.dem_flat
    /\ o_in.mmodel = ScenarioModel
    /\ o_in.smodel = ScenarioModel
    /\ \A p \in OptimGrid : o_in.ifg[p] = 0

\* C11: in the flat scenario (2x2 DEM of zeros, the same flat profile on both
\* dates, all-zero interferogram, min_plevel 600) the call evaluates exactly 9
\* pairs, and no returned std is below the std of the pair made of the level
\* at index 0 for both master and slave
C11_ScenarioMinimumAtIndex0 ==
    (InScenario /\ o_pc = "returned") =>
        /\ Len(o_args) = 9
        /\ Len(o_ret) = 9
        /\ o_done = 1..9
        /\ \E i \in DOMAIN o_ret :
              /\ o_ret[i].master_p = Levels[1]
              /\ o_ret[i].slave_p = Levels[1]
              /\ \A j \in DOMAIN o_ret : o_ret[i].std <= o_ret[j].std

C11_Witness ==
    /\ InScenario
    /\ o_pc = "returned"
    /\ Len(o_ret) = 9
    /\ \E p \in OptimGrid : o_in.mwr[p] > 0
    /\ \E j \in DOMAIN o_ret : o_ret[j].std > o_ret[1].std

(***************************************************************************)
(* Properties of patches_era_delay                                         *)
(***************************************************************************)
PatchWindows == 1..(NWinY(p_in) * NWinX(p_in))

WindowHasRain(i) ==
    ~(NoRain(p_in.mwr, WindowNo(p_in, i)) /\ NoRain(p_in.swr, WindowNo(p_in, i)))

\* C4: whenever min_plevel is absent from the level set the call fails with
\* the level error, also when no patch contains rainfall: it never returns
C4_AbsentLevelNeverReturns ==
    p_in.min_plevel \notin Range(Levels) => p_pc # "returned"

\* the residual std of the pure (no injection) correction of a window
PureStd(in, W) ==
    Score(in, W, Restrict(PatchMHum(in), W), Restrict(PatchSHum(in), W)).std

\* C5: for every patch that entered the search, the std of the finally
\* accepted candidate is at most the residual std of the pure correction
C5_MonotoneImprovement ==
    \A n \in DOMAIN p_log :
        p_log[n].branch = "SEARCHING" =>
            /\ p_log[n].std # Inf
            /\ p_log[n].std <= PureStd(p_in, WindowNo(p_in, p_log[n].win))

\* pixel p of the returned fields holds the no-rain result of window W
HoldsPure(p, W) ==
    LET o == PureOutputs(p_in, W)
    IN /\ p_out.m_plevels[p] = NaN
       /\ p_out.s_plevels[p] = NaN
       /\ p_out.mwet[p] = o.mwet[p]
       /\ p_out.mdry[p] = o.mdry[p]
       /\ p_out.swet[p] = o.swet[p]
       /\ p_out.sdry[p] = o.sdry[p]

\* C6 as claimed: in the returned fields every pixel of every window without
\* rainfall has NaN in both level maps and the pure-correction delays
C6_NoRainWindowPureEverywhere ==
    p_pc = "returned" =>
        \A i \in PatchWindows :
            ~WindowHasRain(i) => \A p \in WindowNo(p_in, i) : HoldsPure(p, WindowNo(p_in, i))

\* C6 amended: in the returned fields every pixel of a window without
\* rainfall that lies in no later-processed window with rainfall has NaN in
\* both level maps and the pure-correction delays of its window
C6_NoRainWindowPureUnlessOverwritten ==
    p_pc = "returned" =>
        \A i \in PatchWindows :
            ~WindowHasRain(i) =>
                \A p \in WindowNo(p_in, i) :
                    (\A j \in PatchWindows : (j > i /\ WindowHasRain(j)) => p \notin WindowNo(p_in, j))
                        => HoldsPure(p, WindowNo(p_in, i))

C6_Witness ==
    /\ p_pc = "returned"
    /\ \E i \in PatchWindows : \E j \in PatchWindows :
          /\ j > i
          /\ ~WindowHasRain(i)
          /\ WindowHasRain(j)
          /\ WindowNo(p_in, i) \cap WindowNo(p_in, j) # {}
          /\ WindowNo(p_in, i) \ WindowNo(p_in, j) # {}

\* C7 as claimed: the windows processed cover every pixel of the grid, so
\* every pixel of the output fields is written
C7_WindowsCoverGrid ==
    p_pc = "returned" => p_written = PatchGrid(p_in)

\* rows or columns left over behind the last window of an axis
LeftOver(n, size) == IF size \div 2 = 0 THEN 0 ELSE (n - size) % (size \div 2)

\* C7 amended: the windows processed cover exactly the pixels in front of the
\* left-over rows and columns, so they cover the grid exactly when on each
\* axis the grid length minus the patch length is a multiple of the stride
C7_WindowsCoverUpToLeftOver ==
    p_pc = "returned" =>
        /\ p_written = {p \in PatchGrid(p_in) :
                           /\ p[1] <= p_in.ny - LeftOver(p_in.ny, p_in.patch[1])
                           /\ p[2] <= p_in.nx - LeftOver(p_in.nx, p_in.patch[2])}
        /\ (LeftOver(p_in.ny, p_in.patch[1]) = 0 /\ LeftOver(p_in.nx, p_in.patch[2]) = 0)
              => p_written = PatchGrid(p_in)

C7_Witness ==
    /\ p_pc = "returned"
    /\ NWinY(p_in) > 1
    /\ NWinX(p_in) > 1
    /\ Stride(p_in.patch[2]) > 1
    /\ p_written = PatchGrid(p_in)

\* the call is over: it returned or it raised
PatchOver == p_pc \in {"returned", "raised_view", "raised_level"}

\* C12: once patches_era_delay has returned or raised, the relative humidity
\* of the caller's master and slave profile objects is what it was before
\* the call, whatever branch the windows took and however many trials ran
C12_ProfilesNotMutated ==
    PatchOver => p_profiles = Profiles(p_in)

C12_Witness ==
    /\ p_pc = "returned"
    /\ p_profiles = Profiles(p_in)
    /\ \E n \in DOMAIN p_log : p_log[n].branch = "SEARCHING" /\ p_log[n].trials > 1
    /\ \E n \in DOMAIN p_log : p_log[n].branch = "SKIP_PURE"

\* the zenith delays of the single column at pixel p when the rainfall of p
\* is injected at plevel (NaN: no injection) into the original humidity
ColumnZenith(in, orig, wr, plevel, p) ==
    LET col == [q \in {p} |-> orig[p]]
        hum == IF plevel = NaN THEN col
               ELSE add_rainfall(col, [q \in {p} |-> wr[p]], plevel, MaxPlevel)
    IN calculate_era_zenith_delay(ERAModel(1, 1, hum),
                                  GeoGrid(1, 1, [q \in {p} |-> PatchDem(in)[p]]))

\* C13: the delay fields are zenith delays in every window: each written
\* pixel of the returned fields holds the zenith wet and dry delay of its
\* column for the level recorded at that pixel (NaN: the pure correction),
\* and during a search the best std is the one of the slant projection of
\* the zenith fields stored with it
C13_ZenithDelaysReturned ==
    /\ p_pc = "returned" =>
          \A p \in p_written :
              LET m == ColumnZenith(p_in, PatchMHum(p_in), p_in.mwr, p_out.m_plevels[p], p)
                  s == ColumnZenith(p_in, PatchSHum(p_in), p_in.swr, p_out.s_plevels[p], p)
              IN /\ p_out.mwet[p] = m.wet[p]
                 /\ p_out.mdry[p] = m.dry[p]
                 /\ p_out.swet[p] = s.wet[p]
                 /\ p_out.sdry[p] = s.dry[p]
    /\ (p_pc = "trial" /\ p_search.max_std # Inf) =>
          p_search.max_std = Std(Residual(Restrict(p_in.ifg, p_search.W),
                                          p_search.out.mwet, p_search.out.mdry,
                                          p_search.out.swet, p_search.out.sdry))

C13_Witness ==
    /\ p_pc = "returned"
    /\ \E p \in p_written : p_out.m_plevels[p] # NaN /\ p_in.mwr[p] > 0 /\ p_out.mwet[p] > 0
    /\ \E p \in p_written : p_out.m_plevels[p] = NaN /\ p_out.s_plevels[p] = NaN
                               /\ p_out.mwet[p] > 0

\* C17: when min_plevel is absent from the level set, the level error is
\* raised before any patch has been processed: no window was integrated or
\* written when the call raises it
C17_LevelErrorBeforeAnyPatch ==
    /\ p_in.min_plevel \notin Range(Levels) => (p_written = {} /\ p_log = <<>>)
    /\ p_pc = "raised_level" => (p_i = 1 /\ p_written = {} /\ p_log = <<>>)

\* the first row and the first column of a window
Corner(W) == CHOOSE c \in W : \A q \in W : c[1] <= q[1] /\ c[2] <= q[2]

\* the finished windows that contain pixel p, as positions of the log
Writers(p) == {n \in DOMAIN p_log : p \in WindowNo(p_in, p_log[n].win)}

LastWriter(p) == CHOOSE n \in Writers(p) : \A m \in Writers(p) : m <= n

OutputFields == {"mwet", "mdry", "swet", "sdry", "m_plevels", "s_plevels"}

\* C18: the windows are finished one after the other in row-major order
\* (window row outer, window column inner), and in the returned fields each
\* written pixel of each of the six fields holds what the last finished
\* window that contains the pixel assigned to it, unblended
C18_LastWriteWins ==
    /\ \A n \in DOMAIN p_log : \A m \in DOMAIN p_log :
          m < n =>
              LET a == Corner(WindowNo(p_in, p_log[m].win))
                  b == Corner(WindowNo(p_in, p_log[n].win))
              IN a[1] < b[1] \/ (a[1] = b[1] /\ a[2] < b[2])
    /\ p_pc = "returned" =>
          /\ Len(p_log) = NWinY(p_in) * NWinX(p_in)
          /\ \A p \in PatchGrid(p_in) :
                /\ p \in p_written <=> Writers(p) # {}
                /\ p \in p_written =>
                      \A f \in OutputFields : p_out[f][p] = p_log[LastWriter(p)].out[f][p]

C18_Witness ==
    /\ p_pc = "returned"
    /\ \E p \in p_written : \E m \in Writers(p) :
          /\ m < LastWriter(p)
          /\ p_log[m].out.s_plevels[p] # p_log[LastWriter(p)].out.s_plevels[p]
          /\ p_log[m].out.swet[p] # p_log[LastWriter(p)].out.swet[p]
          /\ p_out.swet[p] = p_log[LastWriter(p)].out.swet[p]
          /\ p_out.s_plevels[p] = p_log[LastWriter(p)].out.s_plevels[p]

\* the pair of level indices of the trial that ran last in the search
LastTrial ==
    IF p_search.ps > 1
    THEN [pm |-> p_search.pm, ps |-> p_search.ps - 1]
    ELSE [pm |-> p_search.pm - 1, ps |-> LastIdx(p_in.swr, p_search.W, p_search.idx)]

\* the original humidity of a window with only the injection at level index k
FreshlyInjected(orig, wr, W, k) ==
    IF NoRain(wr, W) THEN Restrict(orig, W)
    ELSE add_rainfall(Restrict(orig, W), Restrict(wr, W), Levels[k], MaxPlevel)

\* C19: the humidity evaluated in every trial is a copy of the patch's
\* original humidity with only that trial's injection, whatever trials ran
\* before it, and the original humidity arrays are never written
C19_FreshCopyEveryTrial ==
    p_pc = "trial" =>
        /\ p_profiles = Profiles(p_in)
        /\ p_search.trials > 0 =>
              /\ ~p_search.malias
              /\ ~p_search.salias
              /\ p_search.mrel_hum =
                    FreshlyInjected(PatchMHum(p_in), p_in.mwr, p_search.W, LastTrial.pm)
              /\ p_search.srel_hum =
                    FreshlyInjected(PatchSHum(p_in), p_in.swr, p_search.W, LastTrial.ps)

\* a trial at a higher threshold right after one that injected down to the
\* lowest threshold, with rainfall on both dates
C19_Witness ==
    /\ p_pc = "trial"
    /\ ~NoRain(p_in.mwr, p_search.W)
    /\ ~NoRain(p_in.swr, p_search.W)
    /\ p_search.idx > 1
    /\ p_search.pm = 2
    /\ p_search.ps = 2
    /\ p_search.srel_hum # Restrict(PatchSHum(p_in), p_search.W)
    /\ p_profiles = Profiles(p_in)

\* the pairs of level indices a search of window W tests
TestedPairs(W, idx) ==
    {<<a, b>> : a \in 1..LastIdx(p_in.mwr, W, idx), b \in 1..LastIdx(p_in.swr, W, idx)}

\* the score of the pair <<a, b>> on freshly injected humidity
PairScore(W, pair) ==
    Score(p_in, W, FreshlyInjected(PatchMHum(p_in), p_in.mwr, W, pair[1]),
                   FreshlyInjected(PatchSHum(p_in), p_in.swr, W, pair[2]))

\* iteration order: master index outer, slave index inner
Before(x, y) == x[1] < y[1] \/ (x[1] = y[1] /\ x[2] < y[2])

\* the first pair in iteration order that attains the minimum std
FirstBest(W, idx) ==
    CHOOSE x \in TestedPairs(W, idx) :
        /\ \A y \in TestedPairs(W, idx) : PairScore(W, x).std <= PairScore(W, y).std
        /\ \A y \in TestedPairs(W, idx) :
              PairScore(W, y).std = PairScore(W, x).std => (y = x \/ Before(x, y))

\* every pixel of the interferogram is defined in the window, so every
\* tested pair has a std that is a number
Comparable(W) == \A p \in W : p_in.ifg[p] # NaN

\* C20: a candidate replaces the best only on a strictly lower std, so what
\* a finished search recorded (std, levels, delay fields) is what the first
\* pair in iteration order that attains the minimum std over the tested
\* pairs gives; a later pair with the same std does not replace it (the
\* minimum is taken over stds that are numbers)
C20_FirstMinimumWins ==
    \A n \in DOMAIN p_log :
        (p_log[n].branch = "SEARCHING" /\ Comparable(WindowNo(p_in, p_log[n].win))) =>
            LET W    == WindowNo(p_in, p_log[n].win)
                idx  == FindLevel(Levels, p_in.min_plevel)
                best == FirstBest(W, idx)
                sc   == PairScore(W, best)
            IN /\ p_log[n].trials = Cardinality(TestedPairs(W, idx))
               /\ p_log[n].std = sc.std
               /\ p_log[n].out.mwet = sc.mwet
               /\ p_log[n].out.mdry = sc.mdry
               /\ p_log[n].out.swet = sc.swet
               /\ p_log[n].out.sdry = sc.sdry
               /\ \A p \in W :
                     /\ p_log[n].out.m_plevels[p] =
                           IF NoRain(p_in.mwr, W) THEN NaN ELSE Levels[best[1]]
                     /\ p_log[n].out.s_plevels[p] =
                           IF NoRain(p_in.swr, W) THEN NaN ELSE Levels[best[2]]

\* a finished search in which a later pair ties with the recorded first one
C20_Witness ==
    \E n \in DOMAIN p_log :
        /\ p_log[n].branch = "SEARCHING"
        /\ LET W    == WindowNo(p_in, p_log[n].win)
               idx  == FindLevel(Levels, p_in.min_plevel)
               best == FirstBest(W, idx)
           IN /\ \E y \in TestedPairs(W, idx) :
                    /\ Before(best, y)
                    /\ PairScore(W, y).std = PairScore(W, best).std
              /\ \E y \in TestedPairs(W, idx) : PairScore(W, y).std > PairScore(W, best).std
              /\ \A p \in W : p_log[n].out.m_plevels[p] = Levels[best[1]]

(***************************************************************************)
(* Properties of calculate_era_zenith_delay                                *)
(***************************************************************************)
ZenithSizesDiffer ==
    z_dem.lats # z_model.lats \/ z_dem.lons # z_model.lons

\* C9: when the DEM's latitude or longitude count differs from the model's
\* the call raises the grid error before any output array is allocated or
\* any cell integrated; when both counts match it does not raise
C9_GridMismatchFirst ==
    /\ ZenithSizesDiffer =>
          /\ z_pc \in {"entry", "raised"}
          /\ ~z_alloc
          /\ z_n = 0
          /\ z_ret = NoDelays
    /\ ~ZenithSizesDiffer => z_pc # "raised"

C9_Witness ==
    /\ z_pc = "raised"
    /\ z_dem.lats = z_model.lats
    /\ z_dem.lons # z_model.lons

\* the step-by-step call returns what the operator computes
ZenithAgrees ==
    z_pc = "returned" =>
        LET r == calculate_era_zenith_delay(z_model, z_dem)
        IN /\ z_ret.wet.data = r.wet
           /\ z_ret.dry.data = r.dry
           /\ z_ret.total.data = r.total

\* C14: the total delay returned by calculate_era_zenith_delay is at every
\* cell the sum of the returned wet and dry delay, and the three fields carry
\* the lons, lats and date of the model, also when the DEM's coordinates are
\* other ones
C14_TotalIsWetPlusDry ==
    z_pc = "returned" =>
        /\ DOMAIN z_ret.total.data = Grid(z_dem.lats, z_dem.lons)
        /\ \A p \in Grid(z_dem.lats, z_dem.lons) :
              z_ret.total.data[p] = z_ret.wet.data[p] + z_ret.dry.data[p]
        /\ \A f \in {z_ret.wet, z_ret.dry, z_ret.total} :
              /\ f.lons = z_geo.mlons
              /\ f.lats = z_geo.mlats
              /\ f.date = z_geo.date

C14_Witness ==
    /\ z_pc = "returned"
    /\ z_geo.dlons # z_geo.mlons
    /\ z_geo.date = MaxDate
    /\ \E p \in Grid(z_dem.lats, z_dem.lons) :
          /\ z_ret.wet.data[p] > 0
          /\ z_ret.dry.data[p] > 0
          /\ z_ret.total.data[p] = z_ret.wet.data[p] + z_ret.dry.data[p]

(***************************************************************************)
(* Properties of plot_sar_delay                                            *)
(***************************************************************************)
\* the date argument is a date object or a text that forms a calendar date
DateUsable == ~s_in.date.str \/ IsDate(s_in.date.text)

\* C15 as claimed: a selector outside the four accepted ones makes the call
\* fail with KeyError before any file is opened, and an accepted selector
\* never raises that error
C15_UnknownKindRaisesKeyError ==
    /\ s_in.kind \notin Kinds =>
          /\ s_pc \in {"idle", "start", "parsed", "raised"}
          /\ s_pc = "raised" => s_err = "KeyError"
          /\ s_reads = <<>>
    /\ s_in.kind \in Kinds => s_err # "KeyError"

\* C15 amended: with a date object or a date text that forms a calendar date,
\* a selector outside the four accepted ones makes the call fail with
\* KeyError before any file is opened; a date text that forms no calendar
\* date fails with ValueError first, whatever the selector; no file is
\* opened before either error, and an accepted selector never raises KeyError
C15_UnknownKindRaisesAfterDate ==
    /\ (s_in.kind \notin Kinds /\ DateUsable) =>
          /\ s_pc \in {"idle", "start", "parsed", "raised"}
          /\ s_pc = "raised" => s_err = "KeyError"
    /\ ~DateUsable =>
          /\ s_pc \in {"start", "raised"}
          /\ s_pc = "raised" => s_err = "ValueError"
    /\ (s_in.kind \notin Kinds \/ ~DateUsable) => s_reads = <<>>
    /\ s_in.kind \in Kinds => s_err # "KeyError"

C15_Witness ==
    /\ s_pc = "raised"
    /\ s_err = "KeyError"
    /\ s_in.kind = "hydro"
    /\ s_in.date.str
    /\ s_in.files = PlotFiles
    /\ s_reads = <<>>

(***************************************************************************)
(* Properties of liquid_zenith_delay                                       *)
(***************************************************************************)
\* C16: at every grid cell the returned delay is 0.145 x liquid water
\* content x cloud thickness, the thickness being the one scalar or the
\* value of the thickness field at that cell, and the result carries the
\* lons, lats and date of the liquid water field
C16_LiquidDelayPointwise ==
    l_pc = "returned" =>
        /\ DOMAIN l_ret.data = DOMAIN l_in.lwc.data
        /\ \A p \in DOMAIN l_in.lwc.data :
              l_ret.data[p] =
                  LiquidFactor * l_in.lwc.data[p]
                      * (IF l_in.cloud_thickness.scalar
                         THEN l_in.cloud_thickness.value
                         ELSE l_in.cloud_thickness.data[p])
        /\ l_ret.lons = l_in.lwc.lons
        /\ l_ret.lats = l_in.lwc.lats
        /\ l_ret.date = l_in.lwc.date

C16_Witness ==
    /\ l_pc = "returned"
    /\ ~l_in.cloud_thickness.scalar
    /\ \E p \in DOMAIN l_in.lwc.data : \E q \in DOMAIN l_in.lwc.data :
          /\ l_in.cloud_thickness.data[p] # l_in.cloud_thickness.data[q]
          /\ l_in.lwc.data[p] > 0
          /\ l_in.lwc.data[q] > 0
          /\ l_ret.data[q] = LiquidFactor * l_in.lwc.data[q] * l_in.cloud_thickness.data[q]
    /\ l_in.lwc.date = MaxDate

(***************************************************************************)
(* Properties of the search of _optimise_zenith_delay                      *)
(***************************************************************************)
\* C21: while the candidates of a window are tried, the best-so-far std is
\* never +infinity and never above the residual std of the pure correction:
\* the pure correction was scored and accepted before the first candidate
C21_PureCorrectionScoredFirst ==
    p_pc = "trial" =>
        /\ p_search.max_std # Inf
        /\ p_search.max_std <= PureStd(p_in, p_search.W)

\* number of levels a side is tried on: the levels up to the one asked for
\* when its rainfall window is not all zero, one otherwise
SideTrials(wr, W) == IF NoRain(wr, W) THEN 1 ELSE FindLevel(Levels, p_in.min_plevel)

\* C22: in every search a side whose rainfall sums to zero in the window
\* stays on the level at index 0 while trials remain, keeps its original
\* humidity in every trial and gets a level patch that is NaN at every
\* pixel; the number of trials of a finished search is the product over the
\* two sides of (index of min_plevel + 1) for a side with rainfall and 1
\* for a side without
C22_NoRainSideSingleLevel ==
    /\ p_pc = "trial" =>
          LET W == p_search.W
              n == SideTrials(p_in.mwr, W) * SideTrials(p_in.swr, W)
          IN /\ p_search.trials <= n
             /\ NoRain(p_in.mwr, W) =>
                   /\ p_search.trials < n => p_search.pm = 1
                   /\ p_search.mrel_hum = Restrict(PatchMHum(p_in), W)
                   /\ \A p \in W : p_search.out.m_plevels[p] = NaN
             /\ NoRain(p_in.swr, W) =>
                   /\ p_search.ps = 1
                   /\ p_search.srel_hum = Restrict(PatchSHum(p_in), W)
                   /\ \A p \in W : p_search.out.s_plevels[p] = NaN
    /\ \A n \in DOMAIN p_log :
          p_log[n].branch = "SEARCHING" =>
              LET W == WindowNo(p_in, p_log[n].win)
              IN /\ p_log[n].trials = SideTrials(p_in.mwr, W) * SideTrials(p_in.swr, W)
                 /\ NoRain(p_in.mwr, W) => \A p \in W : p_log[n].out.m_plevels[p] = NaN
                 /\ NoRain(p_in.swr, W) => \A p \in W : p_log[n].out.s_plevels[p] = NaN

C22_Witness ==
    /\ p_pc = "returned"
    /\ \E n \in DOMAIN p_log :
          LET W == WindowNo(p_in, p_log[n].win)
          IN /\ p_log[n].branch = "SEARCHING"
             /\ NoRain(p_in.mwr, W)
             /\ ~NoRain(p_in.swr, W)
             /\ FindLevel(Levels, p_in.min_plevel) = NLevels
             /\ p_log[n].trials = NLevels
             /\ \A p \in W : p_log[n].out.m_plevels[p] = NaN
             /\ \A p \in W : p_log[n].out.s_plevels[p] # NaN
    /\ \E n \in DOMAIN p_log :
          LET W == WindowNo(p_in, p_log[n].win)
          IN /\ p_log[n].branch = "SEARCHING"
             /\ ~NoRain(p_in.mwr, W)
             /\ ~NoRain(p_in.swr, W)
             /\ p_log[n].trials = NLevels * NLevels

(***************************************************************************)
(* Properties of the window loop of patches_era_delay                      *)
(***************************************************************************)
\* the windows finished so far are the windows 1, 2, ... in order, each
\* once and each on the branch its rainfall decides; the window in work is
\* the next one
WindowLog ==
    /\ \A n \in DOMAIN p_log :
          /\ p_log[n].win = n
          /\ n \in PatchWindows
          /\ p_log[n].branch = IF WindowHasRain(n) THEN "SEARCHING" ELSE "SKIP_PURE"
    /\ p_pc \in {"start", "raised_view"} => p_log = <<>>
    /\ p_pc = "loop" => Len(p_log) = p_i
    /\ p_pc = "trial" =>
          /\ Len(p_log) = p_i - 1
          /\ WindowHasRain(p_i)
          /\ p_search.W = WindowNo(p_in, p_i)
    /\ p_pc = "returned" => Len(p_log) = NWinY(p_in) * NWinX(p_in)
    /\ p_pc = "raised_level" =>
          /\ Len(p_log) = p_i - 1
          /\ WindowHasRain(p_i)
          /\ p_in.min_plevel \notin Range(Levels)

\* C23: at every point of the call the windows have been processed exactly
\* once, in order, each on the no-rain branch when both its rainfall windows
\* sum to zero and on the search branch otherwise, all of them once the call
\* has returned; and once a level lookup has failed nothing further can
\* happen: no later window is processed and nothing is returned
C23_PatchStateMachine ==
    /\ WindowLog
    /\ p_pc = "raised_level" => ~ENABLED PatchNext

C23_Witness ==
    /\ p_pc = "returned"
    /\ Len(p_log) >= 3
    /\ \E n \in DOMAIN p_log : p_log[n].branch = "SKIP_PURE"
    /\ \E n \in DOMAIN p_log : p_log[n].branch = "SEARCHING" /\ p_log[n].trials > 1

\* the views exist: the windows have been cut
WindowsCut == p_pc \in {"loop", "trial", "returned"}

\* rows and columns two windows have in common
RowOverlap(V, W) == Cardinality({p[1] : p \in V} \cap {p[1] : p \in W})
ColOverlap(V, W) == Cardinality({p[2] : p \in V} \cap {p[2] : p \in W})

\* the pairs of windows that follow each other along the row axis and along
\* the column axis
RowNeighbours(in) ==
    {<<Window(y, x, in.patch), Window(y + 1, x, in.patch)>> :
        y \in 0..(NWinY(in) - 2), x \in 0..(NWinX(in) - 1)}
ColNeighbours(in) ==
    {<<Window(y, x, in.patch), Window(y, x + 1, in.patch)>> :
        y \in 0..(NWinY(in) - 1), x \in 0..(NWinX(in) - 2)}

\* C24 as claimed: consecutive windows on an axis have exactly half of the
\* patch size on that axis in common, for every patch size
C24_OverlapExactlyHalf ==
    WindowsCut =>
        /\ \A n \in RowNeighbours(p_in) : 2 * RowOverlap(n[1], n[2]) = p_in.patch[1]
        /\ \A n \in ColNeighbours(p_in) : 2 * ColOverlap(n[1], n[2]) = p_in.patch[2]

\* C24 amended: consecutive windows on an axis have the patch size minus the
\* stride int(patch size / 2) in common; that is exactly half of the patch
\* size when it is even and half of (patch size + 1) when it is odd
C24_OverlapSizeMinusStride ==
    WindowsCut =>
        /\ \A n \in RowNeighbours(p_in) :
              /\ RowOverlap(n[1], n[2]) = p_in.patch[1] - (p_in.patch[1] \div 2)
              /\ p_in.patch[1] % 2 = 0 => 2 * RowOverlap(n[1], n[2]) = p_in.patch[1]
              /\ p_in.patch[1] % 2 = 1 => 2 * RowOverlap(n[1], n[2]) = p_in.patch[1] + 1
        /\ \A n \in ColNeighbours(p_in) :
              /\ ColOverlap(n[1], n[2]) = p_in.patch[2] - (p_in.patch[2] \div 2)
              /\ p_in.patch[2] % 2 = 0 => 2 * ColOverlap(n[1], n[2]) = p_in.patch[2]
              /\ p_in.patch[2] % 2 = 1 => 2 * ColOverlap(n[1], n[2]) = p_in.patch[2] + 1

C24_Witness ==
    /\ p_pc = "returned"
    /\ p_in.patch[2] = 3
    /\ NWinX(p_in) >= 3
    /\ NWinY(p_in) >= 2
    /\ \E n \in ColNeighbours(p_in) : ColOverlap(n[1], n[2]) = 2
    /\ \E n \in RowNeighbours(p_in) : RowOverlap(n[1], n[2]) = 1

(***************************************************************************)
(* Properties of optim_era_delay on undefined pixels                       *)
(***************************************************************************)
\* C25: every record of the returned list has a std that is a number and is
\* not negative, also when the interferogram has undefined pixels
C25_StdNeverNegative ==
    o_pc = "returned" =>
        \A i \in DOMAIN o_ret : o_ret[i].std # NaN /\ o_ret[i].std >= 0

(***************************************************************************)
(* Properties of _calculate_zenith_delay_jit                               *)
(***************************************************************************)
IsConstant(column) == column[1] = column[2]

\* C26: for a cell whose column has constant temperature and constant
\* partial pressure of water vapour the wet delay is 10^-6 x 100 x the wet
\* refractivity (k2 - k1*Rd/Rv)*ppwv/T + k3*ppwv/T^2 x (15000 - surface
\* elevation), and with constant temperature and constant pressure the dry
\* delay is 10^-6 x 100 x k1*pressure/T x (15000 - surface elevation), both
\* on pressures in Pa (100 x hPa); delays in millionths of a centimetre,
\* refractivities in hundredths
C26_ConstantColumnClosedForm ==
    j_pc = "returned" =>
        LET T      == j_in.temp[1]
            e      == 100 * j_in.ppwv[1]
            P      == 100 * j_in.pressure[1]
            column == 15000 - j_in.dem
            wet    == ((k2 - (k1 * Rd) \div Rv) * e) \div (10 * T) + (100 * k3 * e) \div (T * T)
            dry    == (k1 * P) \div (10 * T)
        IN /\ (IsConstant(j_in.temp) /\ IsConstant(j_in.ppwv)) =>
                 j_out.wet = wet * column
           /\ (IsConstant(j_in.temp) /\ IsConstant(j_in.pressure)) =>
                 j_out.dry = dry * column

C26_Witness ==
    /\ j_pc = "returned"
    /\ j_i = nheights - 1
    /\ IsConstant(j_in.temp)
    /\ IsConstant(j_in.ppwv)
    /\ IsConstant(j_in.pressure)
    /\ j_in.dem = 1500
    /\ j_out.wet = 6093 * 13500
    /\ j_out.dry = 31040 * 13500

\* the pair at position i of itertools.product of the levels up to
\* min_plevel with themselves: master level outer, slave level inner
PairAt(i) == <<Levels[((i - 1) \div OptimIdx) + 1], Levels[((i - 1) % OptimIdx) + 1]>>

\* C27: the returned list holds, at every position, the record of the pair
\* at that position of the Cartesian product of the level list with itself
\* (master level outer, slave level inner, both in index order); while the
\* workers run, every result that has arrived sits at the position of its
\* pair, in whatever order the batches finish
C27_ResultsInProductOrder ==
    /\ o_pc = "returned" =>
          /\ Len(o_ret) = OptimIdx * OptimIdx
          /\ \A i \in DOMAIN o_ret :
                /\ o_ret[i].master_p = PairAt(i)[1]
                /\ o_ret[i].slave_p = PairAt(i)[2]
    /\ o_pc = "waiting" =>
          \A i \in DOMAIN o_value :
              o_value[i] # NoResult =>
                  /\ o_value[i].master_p = PairAt(i)[1]
                  /\ o_value[i].slave_p = PairAt(i)[2]

C27_Witness ==
    /\ o_pc = "waiting"
    /\ OptimIdx = NLevels
    /\ \E i \in DOMAIN o_value : \E j \in DOMAIN o_value :
          /\ i < j
          /\ o_value[i] = NoResult
          /\ o_value[j] # NoResult
          /\ o_value[j].master_p = PairAt(j)[1]
          /\ o_value[j].slave_p = PairAt(j)[2]

\* the pixels that lie in no window
Uncovered == PatchGrid(p_in) \ UNION {WindowNo(p_in, i) : i \in PatchWindows}

\* C28: in the returned fields a pixel that no window contains holds the
\* preallocated 0 in the four delay fields and in both level maps (0, not
\* NaN), and left-over rows or columns raise no error: the views fail only
\* for a patch larger than the grid or a stride below 1
C28_UncoveredPixelKeepsZero ==
    /\ p_pc = "returned" =>
          \A p \in Uncovered :
              /\ p_out.mwet[p] = 0
              /\ p_out.mdry[p] = 0
              /\ p_out.swet[p] = 0
              /\ p_out.sdry[p] = 0
              /\ p_out.m_plevels[p] = 0
              /\ p_out.s_plevels[p] = 0
              /\ p_out.m_plevels[p] # NaN
              /\ p_out.s_plevels[p] # NaN
    /\ p_pc = "raised_view" =>
          ViewFails(p_in.ny, p_in.patch[1]) \/ ViewFails(p_in.nx, p_in.patch[2])

C28_Witness ==
    /\ p_pc = "returned"
    /\ \E p \in Uncovered : p_out.m_plevels[p] = 0 /\ p_out.mdry[p] = 0
    /\ \E q \in PatchGrid(p_in) : p_out.m_plevels[q] = NaN /\ p_out.mdry[q] > 0
    /\ \E q \in PatchGrid(p_in) : p_out.s_plevels[q] > 0

\* no tested pair of the window has a std that compares below +infinity
NoneComparable(W, idx) == \A x \in TestedPairs(W, idx) : PairScore(W, x).std = NaN

\* C29: a finished search whose candidates all had a NaN std accepted none:
\* it hands back the zenith delays of the pure correction and NaN in both
\* level patches although the window has rainfall; in every other finished
\* search the level patch of a side with rainfall holds one of the tested
\* levels at every pixel, never NaN
C29_NothingAcceptedKeepsPure ==
    \A n \in DOMAIN p_log :
        p_log[n].branch = "SEARCHING" =>
            LET W   == WindowNo(p_in, p_log[n].win)
                idx == FindLevel(Levels, p_in.min_plevel)
                o   == p_log[n].out
            IN IF NoneComparable(W, idx)
               THEN /\ p_log[n].std = Inf
                    /\ o = PureOutputs(p_in, W)
                    /\ \A p \in W : o.m_plevels[p] = NaN /\ o.s_plevels[p] = NaN
                    /\ ~(NoRain(p_in.mwr, W) /\ NoRain(p_in.swr, W))
               ELSE /\ p_log[n].std # Inf
                    /\ ~NoRain(p_in.mwr, W) =>
                          \A p \in W : \E k \in 1..idx : o.m_plevels[p] = Levels[k]
                    /\ ~NoRain(p_in.swr, W) =>
                          \A p \in W : \E k \in 1..idx : o.s_plevels[p] = Levels[k]

C29_Witness ==
    /\ p_pc = "returned"
    /\ \E n \in DOMAIN p_log :
          /\ p_log[n].branch = "SEARCHING"
          /\ p_log[n].trials > 1
          /\ p_log[n].std = Inf
          /\ ~NoRain(p_in.mwr, WindowNo(p_in, p_log[n].win))
          /\ \A p \in WindowNo(p_in, p_log[n].win) : p_log[n].out.m_plevels[p] = NaN
          /\ p_log[n].out.mwet = PureOutputs(p_in, WindowNo(p_in, p_log[n].win)).mwet
    /\ \E n \in DOMAIN p_log :
          /\ p_log[n].branch = "SEARCHING"
          /\ p_log[n].std # Inf
          /\ \A p \in WindowNo(p_in, p_log[n].win) : p_log[n].out.s_plevels[p] # NaN

====
